---- MODULE Spec2Model ----
(***************************************************************************)
(* Replay engine, cascade delete and the pure helpers they call, modelled  *)
(* from the Rust sources of parroton.                                      *)
(*                                                                         *)
(* Strings are sequences of one-character strings ("texts"), so that       *)
(* splitting, prefix tests, formatting and concatenation are computed the  *)
(* way the code computes them.  JSON values are tagged records.            *)
(***************************************************************************)
EXTENDS Integers, Sequences, FiniteSets, TLC

(***************************************************************************)
(* Bounds of the model.                                                    *)
(***************************************************************************)
MaxActions == 2
MaxDeviations == 1
MaxProviders == 2
MaxChildren == 2
MaxParams == 2
MaxAssertions == 2
MaxPending == 2
MaxElems == 2
MaxEntries == 3

(***************************************************************************)
(* Program constants.                                                      *)
(***************************************************************************)
ListLimit == 25
QueryLimit == 50
ChannelCapacity == 32
BatchChunk == 25

(***************************************************************************)
(* Texts.                                                                  *)
(***************************************************************************)
None == [some |-> FALSE]
Some(x) == [some |-> TRUE, val |-> x]

DigitChars == <<"0", "1", "2", "3", "4", "5", "6", "7", "8", "9">>

IsDigit(c) == \E d \in 1..10 : DigitChars[d] = c

DigitVal(c) == (CHOOSE d \in 1..10 : DigitChars[d] = c) - 1

RECURSIVE Digits(_)
Digits(n) == IF n < 10 THEN <<DigitChars[n + 1]>>
             ELSE Digits(n \div 10) \o <<DigitChars[(n % 10) + 1]>>

RECURSIVE ParseNat(_)
ParseNat(s) == IF s = <<>> THEN 0
               ELSE ParseNat(SubSeq(s, 1, Len(s) - 1)) * 10 + DigitVal(s[Len(s)])

StartsWith(s, p) == Len(s) >= Len(p) /\ SubSeq(s, 1, Len(p)) = p

StripPrefix(s, p) == IF StartsWith(s, p) THEN SubSeq(s, Len(p) + 1, Len(s)) ELSE s

IndexOf(s, c) == IF \E i \in 1..Len(s) : s[i] = c
                 THEN CHOOSE i \in 1..Len(s) : s[i] = c /\ \A j \in 1..(i - 1) : s[j] # c
                 ELSE 0

RECURSIVE Split(_, _)
Split(s, c) == LET At(i) == IF i = 0 THEN <<s>>
                             ELSE <<SubSeq(s, 1, i - 1)>> \o Split(SubSeq(s, i + 1, Len(s)), c)
               IN At(IndexOf(s, c))

RECURSIVE Join(_, _)
Join(parts, c) == IF parts = <<>> THEN <<>>
                  ELSE IF Len(parts) = 1 THEN parts[1]
                  ELSE parts[1] \o <<c>> \o Join(Tail(parts), c)

RECURSIVE TrimQuotes(_)
TrimQuotes(s) == IF s # <<>> /\ s[1] = "\"" THEN TrimQuotes(Tail(s))
                 ELSE IF s # <<>> /\ s[Len(s)] = "\"" THEN TrimQuotes(SubSeq(s, 1, Len(s) - 1))
                 ELSE s

(***************************************************************************)
(* JSON values (serde_json::Value): a tag t and a payload v.  TLC compares  *)
(* the fields of two records in the order in which their names first       *)
(* appear, so t is named before v here and nowhere earlier: values of      *)
(* different kinds differ by their tags before their payloads are compared.*)
(***************************************************************************)
Null == [t |-> "null", v |-> 0]
Bool(b) == [t |-> "bool", v |-> b]
Num(n) == [t |-> "num", v |-> n]
Str(s) == [t |-> "str", v |-> s]
Arr(a) == [t |-> "arr", v |-> a]
Obj(f) == [t |-> "obj", v |-> f]
\* A number held as f64 (Value::from(f64)); Num holds an unsigned integer.
Flt(n) == [t |-> "float", v |-> n]
EmptyObj == Obj(<<>>)

IsObj(x) == x.t = "obj"
IsArr(x) == x.t = "arr"
HasKey(x, k) == IsObj(x) /\ k \in DOMAIN x.v
ObjPut(f, k, x) == [j \in (DOMAIN f) \cup {k} |-> IF j = k THEN x ELSE f[j]]

\* Value::to_string(): the compact JSON text of a value.  Object members are
\* written in the map's iteration order, one fixed order per key set.
RECURSIVE SeqOfSet(_)
SeqOfSet(S) == IF S = {} THEN <<>>
               ELSE LET x == CHOOSE y \in S : TRUE IN <<x>> \o SeqOfSet(S \ {x})

RECURSIVE ToJsonText(_)
ToJsonText(x) ==
    CASE x.t = "null" -> <<"n", "u", "l", "l">>
      [] x.t = "bool" -> IF x.v THEN <<"t", "r", "u", "e">> ELSE <<"f", "a", "l", "s", "e">>
      [] x.t = "num" -> Digits(x.v)
      [] x.t = "float" -> Digits(x.v) \o <<".", "0">>
      [] x.t = "str" -> <<"\"">> \o x.v \o <<"\"">>
      [] x.t = "arr" ->
           <<"[">> \o Join([i \in 1..Len(x.v) |-> ToJsonText(x.v[i])], ",") \o <<"]">>
      [] x.t = "obj" ->
           LET ks == SeqOfSet(DOMAIN x.v)
           IN <<"{">> \o Join([i \in 1..Len(ks) |->
                                 <<"\"">> \o ks[i] \o <<"\"", ":">> \o ToJsonText(x.v[ks[i]])], ",")
                \o <<"}">>

\* value.to_string().trim_matches('"')
Render(x) == TrimQuotes(ToJsonText(x))

(***************************************************************************)
(* Path expressions: evaluate_expression hands the expression text to the  *)
(* JSONPath library; the subset `$.seg.seg[i].seg[*]` is evaluated here.   *)
(***************************************************************************)
Ok(x) == [ok |-> TRUE, val |-> x]
Err(m) == [ok |-> FALSE, val |-> m]

\* One segment `name`, `name[digits]` or `name[*]`.
ParseSegment(part) ==
    LET Bracketed(p, inner) ==
            IF p < 2 \/ part[Len(part)] # "]" \/ inner = <<>>
            THEN [ok |-> FALSE, k |-> part, sel |-> "none", i |-> 0]
            ELSE IF inner = <<"*">>
            THEN [ok |-> TRUE, k |-> SubSeq(part, 1, p - 1), sel |-> "all", i |-> 0]
            ELSE IF \A j \in 1..Len(inner) : IsDigit(inner[j])
            THEN [ok |-> TRUE, k |-> SubSeq(part, 1, p - 1), sel |-> "idx", i |-> ParseNat(inner)]
            ELSE [ok |-> FALSE, k |-> part, sel |-> "none", i |-> 0]
        At(p) ==
            IF p = 0
            THEN [ok |-> part # <<>> /\ IndexOf(part, "]") = 0, k |-> part, sel |-> "none", i |-> 0]
            ELSE Bracketed(p, SubSeq(part, p + 1, Len(part) - 1))
    IN At(IndexOf(part, "["))

ParsePath(text) ==
    IF text = <<"$">> THEN Ok(<<>>)
    ELSE IF ~StartsWith(text, <<"$", ".">>) THEN Err("parse")
    ELSE LET Checked(segs) ==
                 IF \A j \in 1..Len(segs) : segs[j].ok THEN Ok(segs) ELSE Err("parse")
             Of(parts) == Checked([j \in 1..Len(parts) |-> ParseSegment(parts[j])])
         IN Of(Split(SubSeq(text, 3, Len(text)), "."))

RECURSIVE Flat(_)
Flat(ss) == IF ss = <<>> THEN <<>> ELSE Head(ss) \o Flat(Tail(ss))

SelectChild(node, seg) ==
    IF ~HasKey(node, seg.k) THEN <<>>
    ELSE LET Of(child) ==
                 CASE seg.sel = "none" -> <<child>>
                   [] seg.sel = "idx" ->
                        IF IsArr(child) /\ seg.i < Len(child.v) THEN <<child.v[seg.i + 1]>>
                        ELSE <<>>
                   [] seg.sel = "all" -> IF IsArr(child) THEN child.v ELSE <<>>
         IN Of(node.v[seg.k])

RECURSIVE QueryNodes(_, _)
QueryNodes(nodes, segs) ==
    IF segs = <<>> THEN nodes
    ELSE QueryNodes(Flat([j \in 1..Len(nodes) |-> SelectChild(nodes[j], Head(segs))]), Tail(segs))

evaluate_expression(context, exp) ==
    LET Query(parsed) ==
            IF parsed.ok THEN Ok(QueryNodes(<<context>>, parsed.val)) ELSE Err("parse")
    IN Query(ParsePath(exp))

\* A parameter is [id, action_id, ptype, loc, path, value, expr] with expr an
\* Option of an expression text.
evaluate_value_literal(parameter, context) == Ok(parameter.value)

evaluate_value(parameter, context) ==
    LET Of(eval_result) ==
            IF ~eval_result.ok THEN eval_result
            ELSE IF IsArr(parameter.value) THEN Ok(Arr(eval_result.val))
            ELSE IF Len(eval_result.val) = 0 THEN Err("empty") ELSE Ok(eval_result.val[1])
    IN IF ~parameter.expr.some THEN Ok(parameter.value)
       ELSE Of(evaluate_expression(context, parameter.expr.val))

(***************************************************************************)
(* reverse_flatten_all: rebuilds a JSON object from (path, value) pairs.   *)
(***************************************************************************)
\* array_key_regex ^([^\[]+)\[(\d+)\](?:\.(.+))?$ on a part that holds no '.'
ArrayKeyMatch(part) ==
    LET Of(p, inner) ==
            IF p >= 2 /\ part[Len(part)] = "]" /\ inner # <<>>
               /\ \A j \in 1..Len(inner) : IsDigit(inner[j])
            THEN [ok |-> TRUE, name |-> SubSeq(part, 1, p - 1), index |-> ParseNat(inner)]
            ELSE [ok |-> FALSE, name |-> part, index |-> 0]
        At(p) == Of(p, SubSeq(part, p + 1, Len(part) - 1))
    IN At(IndexOf(part, "["))

\* vec.resize(n, {}) when vec.len() <= index
Resize(vec, n) == IF Len(vec) >= n THEN vec
                  ELSE vec \o [j \in 1..(n - Len(vec)) |-> EmptyObj]

Panic == [panic |-> TRUE, f |-> <<>>]
Built(f) == [panic |-> FALSE, f |-> f]

RECURSIVE InsertAt(_, _, _)
InsertAt(f, parts, value) ==
    LET Under(key, r) == IF r.panic THEN Panic ELSE Built(ObjPut(f, key, Obj(r.f)))
        InItem(m, vec, r) ==
            IF r.panic THEN Panic
            ELSE Built(ObjPut(f, m.name, Arr([vec EXCEPT ![m.index + 1] = Obj(r.f)])))
        InArray(m, vec) ==
            IF Len(parts) = 1
            THEN IF IsObj(vec[m.index + 1])
                 THEN Built(ObjPut(f, m.name, Arr([vec EXCEPT ![m.index + 1] = value])))
                 ELSE Built(ObjPut(f, m.name, Arr(vec)))
            ELSE IF IsObj(vec[m.index + 1])
                 THEN InItem(m, vec, InsertAt(vec[m.index + 1].v, Tail(parts), value))
                 ELSE Panic
        ArrayPart(m, arr) ==
            IF IsArr(arr) THEN InArray(m, Resize(arr.v, m.index + 1))
            ELSE IF Len(parts) = 1 THEN Built(f) ELSE Panic
        PlainPart(part, child) ==
            IF Len(parts) = 1 THEN Built(ObjPut(f, part, value))
            ELSE IF IsObj(child) THEN Under(part, InsertAt(child.v, Tail(parts), value))
            ELSE Panic
        Of(part, m) ==
            IF m.ok
            THEN ArrayPart(m, IF m.name \in DOMAIN f THEN f[m.name] ELSE Arr(<<>>))
            ELSE PlainPart(part, IF part \in DOMAIN f THEN f[part] ELSE EmptyObj)
    IN Of(Head(parts), ArrayKeyMatch(Head(parts)))

RECURSIVE ReverseFlattenFrom(_, _)
ReverseFlattenFrom(root, pairs) ==
    IF pairs = <<>> THEN Built(root)
    ELSE LET Then(r) == IF r.panic THEN Panic ELSE ReverseFlattenFrom(r.f, Tail(pairs))
         IN Then(InsertAt(root, Split(StripPrefix(Head(pairs).path, <<"$", ".">>), "."),
                          Head(pairs).value))

\* [panic |-> TRUE] when the code panics, else the rebuilt object in f.
reverse_flatten_all(path_value_pairs) == ReverseFlattenFrom(<<>>, path_value_pairs)

(***************************************************************************)
(* Building the request of one action (run/execution.rs).                  *)
(***************************************************************************)
LowerChars == <<"a", "b", "c", "d", "e", "f", "g", "h", "i", "j", "k", "l", "m",
                "n", "o", "p", "q", "r", "s", "t", "u", "v", "w", "x", "y", "z">>
UpperChars == <<"A", "B", "C", "D", "E", "F", "G", "H", "I", "J", "K", "L", "M",
                "N", "O", "P", "Q", "R", "S", "T", "U", "V", "W", "X", "Y", "Z">>

ToUpperChar(c) == IF \E j \in 1..26 : LowerChars[j] = c
                  THEN UpperChars[CHOOSE j \in 1..26 : LowerChars[j] = c]
                  ELSE c

to_uppercase(s) == [j \in 1..Len(s) |-> ToUpperChar(s[j])]

HttpMethods == {<<"P", "O", "S", "T">>, <<"G", "E", "T">>, <<"P", "U", "T">>,
                <<"P", "A", "T", "C", "H">>, <<"D", "E", "L", "E", "T", "E">>}

\* HttpMethod::from_str
HttpMethod_from_str(s) ==
    IF to_uppercase(s) \in HttpMethods THEN Ok(to_uppercase(s)) ELSE Err("Invalid HTTP method")

RECURSIVE SelectSeq2(_, _)
SelectSeq2(seq, keep) ==
    IF seq = <<>> THEN <<>>
    ELSE IF keep[1] THEN <<Head(seq)>> \o SelectSeq2(Tail(seq), Tail(keep))
    ELSE SelectSeq2(Tail(seq), Tail(keep))

\* The parameters of one location, each with its evaluation result.
EvaluatedOf(parameters, context, loc) ==
    LET Each(inLoc) ==
            [j \in 1..Len(inLoc) |-> [p |-> inLoc[j], r |-> evaluate_value(inLoc[j], context)]]
    IN Each(SelectSeq2(parameters, [j \in 1..Len(parameters) |-> parameters[j].loc = loc]))

KeepOk(evaluated) == SelectSeq2(evaluated, [j \in 1..Len(evaluated) |-> evaluated[j].r.ok])

build_http_params_keep_failed(parameters, context, parameter_in) ==
    LET Pairs(evald) ==
            [j \in 1..Len(evald) |->
               [key |-> evald[j].p.path,
                value |-> Render(IF evald[j].r.ok THEN evald[j].r.val ELSE evald[j].p.value)]]
    IN Pairs(EvaluatedOf(parameters, context, parameter_in))

build_http_params(parameters, context, parameter_in) ==
    LET Pairs(kept) ==
            [j \in 1..Len(kept) |-> [key |-> kept[j].p.path, value |-> Render(kept[j].r.val)]]
    IN Pairs(KeepOk(EvaluatedOf(parameters, context, parameter_in)))

build_http_url(raw_url, context) ==
    LET First(r) == IF r.ok /\ Len(r.val) > 0 THEN Render(r.val[1]) ELSE <<>>
        Sub(part) == IF StartsWith(part, <<"$", ".">>)
                     THEN First(evaluate_expression(context, part))
                     ELSE part
        Of(parts) == Join([j \in 1..Len(parts) |-> Sub(parts[j])], "/")
    IN Of(Split(raw_url, "/"))

\* ReqBody: [panic, value] with value an Option of the JSON body.
build_http_request_body(parameters, context) ==
    LET Body(rebuilt) == IF rebuilt.panic THEN [panic |-> TRUE, value |-> None]
                         ELSE [panic |-> FALSE, value |-> Some(Obj(rebuilt.f))]
        Of(kept) ==
            IF kept = <<>> THEN [panic |-> FALSE, value |-> None]
            ELSE Body(reverse_flatten_all(
                   [j \in 1..Len(kept) |-> [path |-> kept[j].p.path, value |-> kept[j].r.val]]))
    IN Of(KeepOk(EvaluatedOf(parameters, context, "Body")))

\* url.find("://"), then the first of '/', '?', '#' after the scheme.
FindSub(s, p) == IF \E i \in 1..Len(s) : StartsWith(SubSeq(s, i, Len(s)), p)
                 THEN CHOOSE i \in 1..Len(s) :
                        /\ StartsWith(SubSeq(s, i, Len(s)), p)
                        /\ \A j \in 1..(i - 1) : ~StartsWith(SubSeq(s, j, Len(s)), p)
                 ELSE 0

FindAnyFrom(s, from, cs) ==
    IF \E i \in from..Len(s) : s[i] \in cs
    THEN CHOOSE i \in from..Len(s) : s[i] \in cs /\ \A j \in from..(i - 1) : s[j] \notin cs
    ELSE 0

obtain_base_url(url) ==
    LET Upto(first_delim) == IF first_delim = 0 THEN url ELSE SubSeq(url, 1, first_delim - 1)
        Of(scheme_end) == IF scheme_end = 0 THEN url
                          ELSE Upto(FindAnyFrom(url, scheme_end + 3, {"/", "?", "#"}))
    IN Of(FindSub(url, <<":", "/", "/">>))

(***************************************************************************)
(* Assertion engine (assertion/check.rs).  An assertion is                 *)
(* [id, left, right, comparison_type, negate]; an item is                  *)
(* [function, value_provider], both Options.  Messages are kept as the     *)
(* name of the format string that builds them.                             *)
(***************************************************************************)
IsNumber(x) == x.t \in {"num", "float"}

ValueProvider_supply(vp, context) ==
    IF vp.value.some THEN Ok(<<vp.value.val>>)
    ELSE IF vp.expression.some THEN evaluate_expression(context, vp.expression.val)
    ELSE Ok(<<>>)

RECURSIVE SumSeq(_)
SumSeq(ns) == IF ns = <<>> THEN 0 ELSE Head(ns) + SumSeq(Tail(ns))

calculate_sum(v1) == SumSeq([j \in 1..Len(v1) |-> IF IsNumber(v1[j]) THEN v1[j].v ELSE 0])

Function_supply(function, context) ==
    LET Of(value_results) ==
            IF \E j \in 1..Len(value_results) : ~value_results[j].ok THEN Err("parameters")
            ELSE CASE function.operation = "Sum" ->
                        Ok(<<Flt(SumSeq([j \in 1..Len(value_results) |->
                                           calculate_sum(value_results[j].val)]))>>)
                   [] function.operation = "Avg" -> Ok(<<Null>>)
                   [] function.operation = "Count" -> Ok(<<>>)
    IN Of([j \in 1..Len(function.parameters) |->
             ValueProvider_supply(function.parameters[j], context)])

\* AssertionItem::supply giving an empty list for an item with no provider.
AssertionItem_supply_or_empty(item, context) ==
    IF item.function.some THEN Function_supply(item.function.val, context)
    ELSE IF item.value_provider.some THEN ValueProvider_supply(item.value_provider.val, context)
    ELSE Ok(<<>>)

AssertionItem_supply(item, context) ==
    IF item.function.some THEN Function_supply(item.function.val, context)
    ELSE IF item.value_provider.some THEN ValueProvider_supply(item.value_provider.val, context)
    ELSE Err("either function, expression or value must be provided!")

of_success(id) == [assertion_id |-> id, success |-> TRUE, message |-> None]
from_error(id, message) == [assertion_id |-> id, success |-> FALSE, message |-> Some(message)]

Contains(haystack, needle) ==
    \E i \in 0..(Len(haystack) - Len(needle)) : SubSeq(haystack, i + 1, i + Len(needle)) = needle

SeqContains(seq, x) == \E j \in 1..Len(seq) : seq[j] = x

\* check_greater_than letting negate turn an incomparable pair into a success.
check_greater_than_negated_shape(assertion, greater, or_equal, left, right) ==
    IF Len(left) = Len(right) /\ Len(left) = 1
    THEN IF IsNumber(left[1]) /\ IsNumber(right[1])
         THEN LET Compared(l, r) ==
                      IF greater THEN (IF or_equal THEN l >= r ELSE l > r)
                      ELSE (IF or_equal THEN l <= r ELSE l < r)
              IN IF Compared(left[1].v, right[1].v) # assertion.negate
                 THEN of_success(assertion.id)
                 ELSE from_error(assertion.id, "is not greater/less than")
         ELSE IF assertion.negate THEN of_success(assertion.id)
              ELSE from_error(assertion.id, "cannot be compared as numbers")
    ELSE from_error(assertion.id, "Lists cannot be compared as numbers!")

check_greater_than(assertion, greater, or_equal, left, right) ==
    IF Len(left) = Len(right) /\ Len(left) = 1
    THEN IF IsNumber(left[1]) /\ IsNumber(right[1])
         THEN LET Compared(l, r) ==
                      IF greater THEN (IF or_equal THEN l >= r ELSE l > r)
                      ELSE (IF or_equal THEN l <= r ELSE l < r)
              IN IF Compared(left[1].v, right[1].v) # assertion.negate
                 THEN of_success(assertion.id)
                 ELSE from_error(assertion.id, "is not greater/less than")
         ELSE from_error(assertion.id, "cannot be compared as numbers")
    ELSE from_error(assertion.id, "Lists cannot be compared as numbers!")

\* check with a substring test that ignores negate.
check_substring_unnegated(assertion, left, right) ==
    CASE assertion.comparison_type = "EqualTo" ->
           IF (left = right) # assertion.negate THEN of_success(assertion.id)
           ELSE from_error(assertion.id, "expected, but got")
      [] assertion.comparison_type = "Contains" ->
           IF \A j \in 1..Len(right) : SeqContains(left, right[j]) THEN of_success(assertion.id)
           ELSE IF Len(left) = Len(right) /\ Len(left) = 1
           THEN IF Contains(ToJsonText(left[1]), Render(right[1]))
                THEN of_success(assertion.id)
                ELSE from_error(assertion.id, "does not contain")
           ELSE from_error(assertion.id, "cannot be compared with contains")
      [] assertion.comparison_type = "GreaterThan" ->
           check_greater_than(assertion, TRUE, FALSE, left, right)
      [] assertion.comparison_type = "GreaterThanOrEqualTo" ->
           check_greater_than(assertion, TRUE, TRUE, left, right)
      [] assertion.comparison_type = "LessThan" ->
           check_greater_than(assertion, FALSE, FALSE, left, right)
      [] assertion.comparison_type = "LessThanOrEqualTo" ->
           check_greater_than(assertion, FALSE, TRUE, left, right)

check(assertion, left, right) ==
    CASE assertion.comparison_type = "EqualTo" ->
           IF (left = right) # assertion.negate THEN of_success(assertion.id)
           ELSE from_error(assertion.id, "expected, but got")
      [] assertion.comparison_type = "Contains" ->
           IF \A j \in 1..Len(right) : SeqContains(left, right[j]) THEN of_success(assertion.id)
           ELSE IF Len(left) = Len(right) /\ Len(left) = 1
           THEN IF Contains(ToJsonText(left[1]), Render(right[1])) # assertion.negate
                THEN of_success(assertion.id)
                ELSE from_error(assertion.id, "does not contain")
           ELSE from_error(assertion.id, "cannot be compared with contains")
      [] assertion.comparison_type = "GreaterThan" ->
           check_greater_than(assertion, TRUE, FALSE, left, right)
      [] assertion.comparison_type = "GreaterThanOrEqualTo" ->
           check_greater_than(assertion, TRUE, TRUE, left, right)
      [] assertion.comparison_type = "LessThan" ->
           check_greater_than(assertion, FALSE, FALSE, left, right)
      [] assertion.comparison_type = "LessThanOrEqualTo" ->
           check_greater_than(assertion, FALSE, TRUE, left, right)

check_assertion(assertion, context) ==
    LET Of(left_result, right_result) ==
            IF ~left_result.ok THEN from_error(assertion.id, left_result.val)
            ELSE IF ~right_result.ok THEN from_error(assertion.id, right_result.val)
            ELSE check(assertion, left_result.val, right_result.val)
    IN Of(AssertionItem_supply(assertion.left, context),
          AssertionItem_supply(assertion.right, context))

from_expression(expression) ==
    [function |-> None, value_provider |-> Some([expression |-> Some(expression), value |-> None])]

from_value(value) ==
    [function |-> None, value_provider |-> Some([expression |-> None, value |-> Some(value)])]

(***************************************************************************)
(* Action names (har_resolver.rs).                                         *)
(***************************************************************************)
ToLowerChar(c) == IF \E j \in 1..26 : UpperChars[j] = c
                  THEN LowerChars[CHOOSE j \in 1..26 : UpperChars[j] = c]
                  ELSE c

IsUpper(c) == \E j \in 1..26 : UpperChars[j] = c

ReplaceChar(s, a, b) == [j \in 1..Len(s) |-> IF s[j] = a THEN b ELSE s[j]]

Last(seq) == seq[Len(seq)]

\* camelCase folded to snake_case, one character at a time
SnakeFold(v) == Flat([j \in 1..Len(v) |->
                        IF IsUpper(v[j]) THEN <<"_", ToLowerChar(v[j])>> ELSE <<v[j]>>])

build_action_name_no_order(order, url) ==
    LET Of(base_name, q) == IF q = 0 THEN base_name ELSE SubSeq(base_name, 1, q - 1)
        From(base_name) == Of(base_name, IndexOf(base_name, "?"))
    IN From(Last(Split(ReplaceChar(url, "-", "_"), "/")))

build_action_name_from_url(order, url) ==
    LET Suffix(lastValue) ==
            IF lastValue = <<>> \/ (\A j \in 1..Len(lastValue) : IsDigit(lastValue[j]))
            THEN <<>>
            ELSE SnakeFold(lastValue)
        Of(base_name, q) ==
            IF q = 0 THEN base_name \o <<"_">> \o Digits(order)
            ELSE SubSeq(base_name, 1, q - 1)
                 \o Suffix(Last(Split(SubSeq(base_name, q, Len(base_name)), "=")))
                 \o <<"_">> \o Digits(order)
        From(base_name) == Of(base_name, IndexOf(base_name, "?"))
    IN From(Last(Split(ReplaceChar(url, "-", "_"), "/")))

(***************************************************************************)
(* Storage (persistence/repo.rs).  A table partition is a set of records   *)
(* with a numeric id standing for the sort key.                            *)
(***************************************************************************)
RECURSIVE SeqById(_)
SeqById(S) == IF S = {} THEN <<>>
              ELSE LET x == CHOOSE y \in S : \A z \in S : y.id <= z.id
                   IN <<x>> \o SeqById(S \ {x})

Take(seq, n) == SubSeq(seq, 1, IF Len(seq) < n THEN Len(seq) ELSE n)

\* items.sort_by(ordering) / actions.sort(): a stable sort on `order`
RECURSIVE InsertByOrder(_, _)
InsertByOrder(sorted, x) ==
    IF sorted = <<>> THEN <<x>>
    ELSE IF x.order < Head(sorted).order THEN <<x>> \o sorted
    ELSE <<Head(sorted)>> \o InsertByOrder(Tail(sorted), x)

SortByOrder_as_listed(seq) == seq

RECURSIVE SortByOrder(_)
SortByOrder(seq) == IF seq = <<>> THEN <<>>
                    ELSE InsertByOrder(SortByOrder(SubSeq(seq, 1, Len(seq) - 1)), Last(seq))

\* One Query page: at most `limit` items after the exclusive start key, and
\* the last evaluated key when the limit was reached.
QueryPage(S, limit, start) ==
    LET Of(page) ==
            [items |-> page,
             next_page_key |-> IF Len(page) = limit /\ limit > 0 THEN Some(Last(page).id)
                               ELSE None]
    IN Of(Take(SeqById({x \in S : x.id > start}), limit))

list_items(S, limit, start) == QueryPage(S, limit, start)

\* ActionOperations::list with no page key, then from_query_result's sort.
ActionOperations_list(S) == SortByOrder(list_items(S, ListLimit, 0).items)

AssertionOperations_list(S) == list_items(S, ListLimit, 0).items

\* ParameterOperations::list_all_inputs_of_action follows every page key.
list_all_inputs_of_action(S, action_id) ==
    SeqById({p \in S : p.action_id = action_id /\ p.ptype = "Input"})

(***************************************************************************)
(* State.                                                                  *)
(***************************************************************************)
VARIABLES
    caseStored,     \* the test case row exists
    actions,        \* actions table, partition of the test case
    parameters,     \* parameters table, partition of the test case
    assertions,     \* assertions table, partition of the test case
    providers,      \* authentication_providers table, partition of the customer
    runs,           \* runs table: run id -> [status, assertion_results]
    executions,     \* action_executions table: set of ActionExecution records
    rt,             \* the run_test call in progress
    task,           \* replay task of each run: [pc, acts, i, context, params, req, results] and
                    \* the history of its calls and their outcomes
    spawned,        \* ActionExecution writes spawned and not yet performed
    nextUuid,       \* source of fresh ids
    devs,           \* environment deviations (errors, other responses) still allowed
    runLog,         \* history: the statuses written for each run, in order
    del,            \* TestCaseOperations::delete and its consumer task: [pc, callsLeft, queue]
    chan,           \* the mpsc channel of OnDeleteMessage values
    sweeps,         \* running delete_all_items tasks: [table, part, key]
    senders,        \* spawned tasks waiting to send a deleted event
    batches,        \* spawned batch_write_item chunks: [table, keys]
    har             \* the inference run (build_test_case) over a recording: [pc, entries, ...]

replayVars == <<caseStored, actions, parameters, assertions, providers, runs, executions,
                rt, task, spawned, nextUuid, devs, runLog>>

cascadeVars == <<del, chan, sweeps, senders, batches>>

vars == <<replayVars, cascadeVars, har>>

TestCaseId == "tc1"
OtherTestCaseId == "tc2"

(***************************************************************************)
(* Stored test cases the replay starts from: what inference stores.        *)
(***************************************************************************)
T_output == <<"o", "u", "t", "p", "u", "t">>
T_input == <<"i", "n", "p", "u", "t">>
T_id == <<"i", "d">>
T_tags == <<"t", "a", "g", "s">>
BaseUrl == <<"h", "t", "t", "p", "s", ":", "/", "/", "h", ".", "i", "o">>
OtherBaseUrl == <<"h", "t", "t", "p", "s", ":", "/", "/", "o", "t", "h", "e", "r", ".", "i", "o">>

\* The recorded url of the exchange at position order.
OrigUrl(order) == CASE order % 3 = 0 -> BaseUrl \o <<"/", "u", "s", "e", "r", "s">>
                    [] order % 3 = 1 -> BaseUrl \o <<"/", "v", "2", "/", "u", "s", "e", "r", "s", "?", "p", "a", "g", "e", "=", "2">>
                    [] order % 3 = 2 -> BaseUrl \o <<"/", "u", "s", "e", "r", "-", "i", "t", "e", "m", "s", "?", "k", "i", "n", "d", "=", "B", "i", "g">>

ActionName(order) == build_action_name_from_url(order, OrigUrl(order))

\* The stored (templated) url: a later action addresses the id the previous
\* action returned.
StoredUrl(order) == IF order = 0 THEN BaseUrl \o <<"/", "u", "s", "e", "r", "s">>
                    ELSE BaseUrl \o <<"/", "u", "s", "e", "r", "s", "/", "$", ".">> \o ActionName(order - 1)
                           \o <<".", "o", "u", "t", "p", "u", "t", ".", "i", "d", "/", "i", "t", "e", "m", "s">>

MethodOf(order, badMethodAt) == IF order = badMethodAt THEN <<"O", "P", "T", "I", "O", "N", "S">>
                                ELSE IF order % 2 = 0 THEN <<"G", "E", "T">> ELSE <<"p", "o", "s", "t">>

CapturedId == Str(<<"c", "a", "p">>)

\* The parameter templates of an action; `prev` is the name of the action
\* before it.
ParamTemplates == {"lit_query", "expr_query", "expr_header", "expr_body", "idx_body",
                   "clash_body", "bad_expr"}

TemplateRank(tpl) == CASE tpl = "lit_query" -> 1 [] tpl = "expr_query" -> 2
                       [] tpl = "expr_header" -> 3 [] tpl = "clash_body" -> 4
                       [] tpl = "expr_body" -> 5 [] tpl = "idx_body" -> 6
                       [] tpl = "bad_expr" -> 7

ParamOf(tpl, prev) ==
    CASE tpl = "lit_query" ->
           [loc |-> "Query", path |-> <<"q">>, value |-> CapturedId, expr |-> None]
      [] tpl = "expr_query" ->
           [loc |-> "Query", path |-> T_id, value |-> CapturedId,
            expr |-> Some(<<"$", ".">> \o prev \o <<".", "o", "u", "t", "p", "u", "t", ".", "i", "d">>)]
      [] tpl = "expr_header" ->
           [loc |-> "Header", path |-> <<"x", "-", "t", "a", "g">>, value |-> Str(<<"t", "0">>),
            expr |-> Some(<<"$", ".">> \o prev \o <<".", "o", "u", "t", "p", "u", "t", ".", "t", "a", "g", "s", "[", "0", "]">>)]
      [] tpl = "clash_body" ->
           [loc |-> "Body", path |-> <<"$", ".", "u", "s", "e", "r">>, value |-> CapturedId, expr |-> None]
      [] tpl = "expr_body" ->
           [loc |-> "Body", path |-> <<"$", ".", "u", "s", "e", "r", ".", "i", "d">>, value |-> Num(7),
            expr |-> Some(<<"$", ".">> \o prev \o <<".", "o", "u", "t", "p", "u", "t", ".", "i", "d">>)]
      [] tpl = "idx_body" ->
           [loc |-> "Body", path |-> <<"$", ".", "l", "i", "s", "t", "[", "1", "]">>, value |-> CapturedId, expr |-> None]
      [] tpl = "bad_expr" ->
           [loc |-> "Query", path |-> <<"b">>, value |-> CapturedId,
            expr |-> Some(prev \o <<".", "o", "u", "t", "p", "u", "t", ".", "i", "d">>)]

\* Action ids stand for uuids: their order is unrelated to `order`.
ActionId(order, n, idOrder) == IF idOrder = "asc" THEN order + 1 ELSE n - order

StoredActions(n, idOrder, badMethodAt) ==
    {[id |-> ActionId(o, n, idOrder), order |-> o, name |-> ActionName(o),
      url |-> StoredUrl(o), method |-> MethodOf(o, badMethodAt)] : o \in 0..(n - 1)}

\* Input parameters of every action after the first, and one Output
\* parameter per action.
StoredParameters(n, idOrder, tpls) ==
    {[id |-> 10 * ActionId(o, n, idOrder) + TemplateRank(tpl),
      action_id |-> ActionId(o, n, idOrder), ptype |-> "Input"]
        @@ ParamOf(tpl, ActionName(o - 1)) : tpl \in tpls, o \in 1..(n - 1)}
    \cup
    {[id |-> 10 * ActionId(o, n, idOrder), action_id |-> ActionId(o, n, idOrder),
      ptype |-> "Output", loc |-> "Body",
      path |-> <<"$", ".", "i", "d">>, value |-> CapturedId, expr |-> None] : o \in 0..(n - 1)}

\* Assertions: odd ids compare the first action's output id with a literal,
\* even ids compare the numbers of two outputs.
StoredAssertion(id) ==
    IF id % 2 = 1
    THEN [id |-> id, left |-> from_expression(<<"$", ".">> \o ActionName(0) \o <<".", "o", "u", "t", "p", "u", "t", ".", "i", "d">>),
          right |-> from_value(Str(<<"r", "1">>)), comparison_type |-> "EqualTo", negate |-> FALSE]
    ELSE [id |-> id, left |-> from_expression(<<"$", ".">> \o ActionName(1) \o <<".", "o", "u", "t", "p", "u", "t", ".", "i", "d">>),
          right |-> from_value(Num(5)), comparison_type |-> "GreaterThan", negate |-> TRUE]

StoredAssertions(m) == {StoredAssertion(id) : id \in 1..m}

AuthHeaders == <<[name |-> <<"a", "u", "t", "h", "o", "r", "i", "z", "a", "t", "i", "o", "n">>, value |-> <<"s", "e", "c", "r", "e", "t">>, disabled |-> FALSE],
                 [name |-> <<"x", "-", "c", "s", "r", "f">>, value |-> <<"c", "1">>, disabled |-> TRUE]>>

StoredProvider(id) ==
    [id |-> id,
     base_url |-> IF id % 2 = 1 THEN BaseUrl ELSE OtherBaseUrl,
     headers |-> AuthHeaders,
     linked |-> IF id % 3 = 2 THEN {OtherTestCaseId} ELSE {TestCaseId, OtherTestCaseId}]

StoredProviders(k) == {StoredProvider(id) : id \in 1..k}

\* k providers of one customer with the same base url, as repeated inference
\* runs on one site leave them: each linked to its own test case, the last
\* one to the test case replayed here.
ProvidersOfOneBaseUrl(k) ==
    {[id |-> id, base_url |-> BaseUrl, headers |-> AuthHeaders,
      linked |-> IF id = k THEN {TestCaseId} ELSE {OtherTestCaseId}] : id \in 1..k}

\* What the live service can answer.
Body0 == Obj(T_id :> Str(<<"r", "1">>) @@ T_tags :> Arr(<<Str(<<"t", "1">>), Str(<<"t", "2">>)>>))
Body1 == Obj(T_id :> Num(9) @@ T_tags :> Arr(<<>>))

DefaultOutcome == [kind |-> "ok", status |-> 200, body |-> Body0]
OtherOutcomes == {[kind |-> "ok", status |-> 200, body |-> Body1],
                  [kind |-> "status", status |-> 500, body |-> Null],
                  [kind |-> "io", status |-> 0, body |-> Null]}

(***************************************************************************)
(* Replay (run/execution.rs).                                              *)
(***************************************************************************)
NoRequest == [method |-> <<>>, url |-> <<>>, query |-> <<>>, headers |-> <<>>, body |-> None]

NewTask == [pc |-> "list_actions", acts |-> <<>>, i |-> 1, context |-> EmptyObj,
            params |-> <<>>, req |-> NoRequest, calls |-> <<>>, outcomes |-> <<>>, results |-> <<>>]

Stopped(r) == task[r].pc \in {"done", "panicked"}

\* AuthProviderOperations::list by customer, linked test case and base url.
AuthProviderOperations_list(S, test_case_id, base_url) ==
    LET Linked(page) == SelectSeq2(page, [j \in 1..Len(page) |-> test_case_id \in page[j].linked])
    IN Linked(QueryPage({p \in S : p.base_url = base_url}, QueryLimit, 0).items)

EnabledHeaders(provider) ==
    LET Pairs(kept) == [j \in 1..Len(kept) |-> [key |-> kept[j].name, value |-> kept[j].value]]
        Of(hs) == Pairs(SelectSeq2(hs, [j \in 1..Len(hs) |-> ~hs[j].disabled]))
    IN Of(provider.headers)

\* build_http_request once the parameters are listed: [panic, req]
build_http_request(action, context, params) ==
    LET AuthHeadersOf(listed) == Flat([j \in 1..Len(listed) |-> EnabledHeaders(listed[j])])
        Of(req_body, method) ==
            IF req_body.panic \/ ~method.ok THEN [panic |-> TRUE, req |-> NoRequest]
            ELSE [panic |-> FALSE,
                  req |-> [method |-> method.val,
                           url |-> build_http_url(action.url, context),
                           query |-> build_http_params(params, context, "Query"),
                           headers |-> build_http_params(params, context, "Header")
                                         \o AuthHeadersOf(AuthProviderOperations_list(
                                               providers, TestCaseId,
                                               obtain_base_url(action.url))),
                           body |-> req_body.value]]
    IN Of(build_http_request_body(params, context), HttpMethod_from_str(action.method))

\* run_test going on to runs().create whether or not the test case is stored.
RunTestGet_unchecked ==
    /\ rt.pc = "idle" /\ rt.callsLeft > 0
    /\ rt' = [rt EXCEPT !.pc = "create", !.callsLeft = @ - 1]
    /\ UNCHANGED cascadeVars
    /\ UNCHANGED <<har, caseStored, actions, parameters, assertions, providers, runs, executions,
                   task, spawned, nextUuid, devs, runLog>>

\* run_test, first await: test_cases().get
RunTestGet ==
    /\ rt.pc = "idle" /\ rt.callsLeft > 0
    /\ \/ /\ caseStored
          /\ rt' = [rt EXCEPT !.pc = "create", !.callsLeft = @ - 1]
          /\ devs' = devs
       \/ /\ ~caseStored
          /\ rt' = [rt EXCEPT !.callsLeft = @ - 1, !.last = "NotFound"]
          /\ devs' = devs
       \/ /\ devs > 0
          /\ devs' = devs - 1
          /\ rt' = [rt EXCEPT !.callsLeft = @ - 1, !.last = "Internal"]
    /\ UNCHANGED cascadeVars
    /\ UNCHANGED <<har, caseStored, actions, parameters, assertions, providers, runs, executions,
                   task, spawned, nextUuid, runLog>>

\* run_test, second await: runs().create, then the replay task is spawned
RunTestCreate ==
    /\ rt.pc = "create"
    /\ \/ /\ runs' = runs @@ (nextUuid :> [status |-> "InProgress", assertion_results |-> None])
          /\ runLog' = runLog @@ (nextUuid :> <<"InProgress">>)
          /\ task' = task @@ (nextUuid :> NewTask)
          /\ nextUuid' = nextUuid + 1
          /\ rt' = [rt EXCEPT !.pc = "idle", !.last = "Ok"]
          /\ devs' = devs
       \/ /\ devs > 0
          /\ devs' = devs - 1
          /\ rt' = [rt EXCEPT !.pc = "idle", !.last = "panic"]
          /\ UNCHANGED <<runs, runLog, task, nextUuid>>
    /\ UNCHANGED cascadeVars
    /\ UNCHANGED <<har, caseStored, actions, parameters, assertions, providers, executions, spawned>>

\* the task's first await: actions().list(..).await.unwrap().items, then sort()
ListActions(r) ==
    /\ task[r].pc = "list_actions"
    /\ \/ /\ task' = [task EXCEPT ![r].pc = IF ActionOperations_list(actions) = <<>>
                                            THEN "assert" ELSE "list_inputs",
                                  ![r].acts = SortByOrder(ActionOperations_list(actions))]
          /\ devs' = devs
       \/ /\ devs > 0
          /\ devs' = devs - 1
          /\ task' = [task EXCEPT ![r].pc = "panicked"]
    /\ UNCHANGED cascadeVars
    /\ UNCHANGED <<har, caseStored, actions, parameters, assertions, providers, runs, executions,
                   rt, spawned, nextUuid, runLog>>

\* execute, up to the first await of build_http_request:
\* parameters().list_all_inputs_of_action(..).await.unwrap()
ListInputs(r) ==
    /\ task[r].pc = "list_inputs"
    /\ \/ /\ task' = [task EXCEPT
                        ![r].pc = "build",
                        ![r].params = list_all_inputs_of_action(parameters,
                                                                task[r].acts[task[r].i].id)]
          /\ devs' = devs
       \/ /\ devs > 0
          /\ devs' = devs - 1
          /\ task' = [task EXCEPT ![r].pc = "panicked"]
    /\ UNCHANGED cascadeVars
    /\ UNCHANGED <<har, caseStored, actions, parameters, assertions, providers, runs, executions,
                   rt, spawned, nextUuid, runLog>>

\* execute, from auth_providers().list(..).await.unwrap() to the start of
\* client.execute(http_request): the request is built and the call begins.
BuildRequest(r) ==
    /\ task[r].pc = "build"
    /\ \/ /\ LET Started(action, built) ==
                     IF built.panic THEN [task EXCEPT ![r].pc = "panicked"]
                     ELSE [task EXCEPT ![r].pc = "http", ![r].req = built.req,
                                       ![r].calls = Append(@, action.order)]
                 Of(action) ==
                     Started(action,
                             build_http_request(action, task[r].context, task[r].params))
             IN task' = Of(task[r].acts[task[r].i])
          /\ devs' = devs
       \/ /\ devs > 0
          /\ devs' = devs - 1
          /\ task' = [task EXCEPT ![r].pc = "panicked"]
    /\ UNCHANGED cascadeVars
    /\ UNCHANGED <<har, caseStored, actions, parameters, assertions, providers, runs, executions,
                   rt, spawned, nextUuid, runLog>>

resolve_status_code(result) == result.status

resolve_error_from_result(result) ==
    IF result.kind = "ok" THEN None ELSE Some(result.kind)

resolve_response_always(result) == Some(result.body)

resolve_response_from_result(result) ==
    IF result.kind = "ok" THEN Some(result.body) ELSE None

ActionContext(result) == IF result.kind = "ok" THEN result.body ELSE Null

OptionOr(opt, default) == IF opt.some THEN opt.val ELSE default

\* execute, from the return of client.execute to the end: the execution
\* record is handed to a spawned task and the context entry is merged.
HttpReturn(r, result) ==
    /\ task[r].pc = "http"
    /\ Cardinality(spawned) < MaxPending
    /\ \/ result = DefaultOutcome /\ devs' = devs
       \/ result \in OtherOutcomes /\ devs > 0 /\ devs' = devs - 1
    /\ LET action == task[r].acts[task[r].i]
           req == task[r].req
           entry == Obj(T_output :> ActionContext(result)
                          @@ T_input :> OptionOr(task[r].req.body, Null))
       IN /\ spawned' = spawned \cup
               {[id |-> nextUuid, run_id |-> r, action_id |-> action.id,
                 status_code |-> resolve_status_code(result),
                 error |-> resolve_error_from_result(result),
                 response_body |-> resolve_response_from_result(result),
                 request_body |-> req.body, query_params |-> req.query]}
          /\ nextUuid' = nextUuid + 1
          /\ task' = [task EXCEPT
                        ![r].context = Obj(ObjPut(@.v, action.name, entry)),
                        ![r].req = NoRequest,
                        ![r].outcomes = Append(@, result.kind),
                        ![r].i = @ + 1,
                        ![r].pc = IF task[r].i = Len(task[r].acts) THEN "assert"
                                  ELSE "list_inputs"]
    /\ UNCHANGED cascadeVars
    /\ UNCHANGED <<har, caseStored, actions, parameters, assertions, providers, runs, executions,
                   rt, runLog>>

\* the spawned action_executions().create(..): put_item(..).unwrap()
StoreExecution(ae) ==
    /\ ae \in spawned
    /\ spawned' = spawned \ {ae}
    /\ \/ executions' = executions \cup {ae} /\ devs' = devs
       \/ devs > 0 /\ devs' = devs - 1 /\ executions' = executions
    /\ UNCHANGED cascadeVars
    /\ UNCHANGED <<har, caseStored, actions, parameters, assertions, providers, runs,
                   rt, task, nextUuid, runLog>>

\* after the loop: assertions().list(..).await.unwrap().items and the checks
CheckAssertions(r) ==
    /\ task[r].pc = "assert"
    /\ \/ /\ LET Results(listed) ==
                     [j \in 1..Len(listed) |-> check_assertion(listed[j], task[r].context)]
             IN task' = [task EXCEPT
                           ![r].pc = "update",
                           ![r].results = Results(AssertionOperations_list(assertions))]
          /\ devs' = devs
       \/ /\ devs > 0
          /\ devs' = devs - 1
          /\ task' = [task EXCEPT ![r].pc = "panicked"]
    /\ UNCHANGED cascadeVars
    /\ UNCHANGED <<har, caseStored, actions, parameters, assertions, providers, runs, executions,
                   rt, spawned, nextUuid, runLog>>

UpdateRun_repeats(r) ==
    /\ task[r].pc = "update"
    /\ r \in DOMAIN runs
    /\ runs' = [runs EXCEPT ![r] = [status |-> "Finished",
                                    assertion_results |-> Some(task[r].results)]]
    /\ runLog' = [runLog EXCEPT ![r] = Append(@, "Finished")]
    /\ task' = [task EXCEPT ![r].pc = IF Len(runLog[r]) < 2 THEN "update" ELSE "done"]
    /\ UNCHANGED cascadeVars
    /\ UNCHANGED <<har, caseStored, actions, parameters, assertions, providers, executions,
                   rt, spawned, nextUuid, devs>>

\* RunOperations::update: update_partial with attribute_exists(pk, sk), unwrapped
UpdateRun(r) ==
    /\ task[r].pc = "update"
    /\ \/ /\ r \in DOMAIN runs
          /\ runs' = [runs EXCEPT ![r] = [status |-> "Finished",
                                          assertion_results |-> Some(task[r].results)]]
          /\ runLog' = [runLog EXCEPT ![r] = Append(@, "Finished")]
          /\ task' = [task EXCEPT ![r].pc = "done"]
          /\ devs' = devs
       \/ /\ r \notin DOMAIN runs
          /\ task' = [task EXCEPT ![r].pc = "panicked"]
          /\ UNCHANGED <<runs, runLog, devs>>
       \/ /\ devs > 0
          /\ devs' = devs - 1
          /\ task' = [task EXCEPT ![r].pc = "panicked"]
          /\ UNCHANGED <<runs, runLog>>
    /\ UNCHANGED cascadeVars
    /\ UNCHANGED <<har, caseStored, actions, parameters, assertions, providers, executions,
                   rt, spawned, nextUuid>>

(***************************************************************************)
(* Cascade delete (case/service.rs, persistence/repo.rs, auth/service.rs). *)
(***************************************************************************)
TestCaseDeleted == [kind |-> "TestCaseDeleted", id |-> 0]
ActionDeleted(id) == [kind |-> "ActionDeleted", id |-> id]
RunDeleted(id) == [kind |-> "RunDeleted", id |-> id]

\* Table::build_deleted_event: only actions and runs announce a deletion.
build_deleted_event(table, item) ==
    CASE table = "actions" -> Some(ActionDeleted(item.id))
      [] table = "runs" -> Some(RunDeleted(item.id))
      [] OTHER -> None

\* The items of one partition of a table; `part` is the run id for
\* action_executions and the test case otherwise.
PartitionItems(table, part) ==
    CASE table = "actions" -> actions
      [] table = "parameters" -> parameters
      [] table = "assertions" -> assertions
      [] table = "runs" -> {[id |-> r] : r \in DOMAIN runs}
      [] table = "action_executions" -> {ae \in executions : ae.run_id = part}

NewSweep(table, part) == [table |-> table, part |-> part, key |-> None]

\* write_requests.chunks(25)
RECURSIVE Chunks(_, _)
Chunks(seq, size) ==
    IF seq = <<>> THEN {}
    ELSE {{seq[j] : j \in 1..(IF Len(seq) < size THEN Len(seq) ELSE size)}}
           \cup Chunks(SubSeq(seq, size + 1, Len(seq)), size)

\* AuthProviderOperations::unlink_test_case, its one list call: the first
\* query page of the customer's providers, filtered by linked test case.
unlink_test_case_list(S, test_case_id) ==
    LET page == QueryPage(S, QueryLimit, 0).items
    IN SelectSeq2(page, [j \in 1..Len(page) |-> test_case_id \in page[j].linked])

\* TestCaseOperations::delete: delete_item, the TestCaseDeleted message and
\* the spawn of the consumer task.
DeleteCall ==
    /\ del.pc = "idle" /\ del.callsLeft > 0
    /\ \/ /\ caseStored
          /\ caseStored' = FALSE
          /\ chan' = Append(chan, TestCaseDeleted)
          /\ devs' = devs
       \/ /\ ~caseStored
          /\ UNCHANGED <<caseStored, chan, devs>>
       \/ /\ devs > 0
          /\ devs' = devs - 1
          /\ UNCHANGED <<caseStored, chan>>
    /\ del' = [del EXCEPT !.pc = "recv", !.callsLeft = @ - 1]
    /\ UNCHANGED <<har, actions, parameters, assertions, providers, runs, executions,
                   rt, task, spawned, nextUuid, runLog, sweeps, senders, batches>>

\* The consumer task: rx.recv() and the match on the message, up to the
\* next await.
ConsumerRecv ==
    /\ del.pc = "recv"
    /\ chan # <<>>
    /\ chan' = Tail(chan)
    /\ LET message == Head(chan)
       IN CASE message.kind = "TestCaseDeleted" ->
                 /\ sweeps' = sweeps \cup {NewSweep("actions", 0), NewSweep("runs", 0),
                                           NewSweep("assertions", 0)}
                 /\ del' = [del EXCEPT !.pc = "unlink_list"]
            [] message.kind = "ActionDeleted" ->
                 /\ sweeps' = sweeps \cup {NewSweep("parameters", 0)}
                 /\ del' = del
            [] message.kind = "RunDeleted" ->
                 /\ sweeps' = sweeps \cup {NewSweep("action_executions", message.id)}
                 /\ del' = del
    /\ UNCHANGED <<har, caseStored, actions, parameters, assertions, providers, runs, executions,
                   rt, task, spawned, nextUuid, devs, runLog, senders, batches>>

\* unlink_test_case: self.list(..).await
UnlinkList ==
    /\ del.pc = "unlink_list"
    /\ \/ /\ LET items == unlink_test_case_list(providers, TestCaseId)
             IN del' = [del EXCEPT !.queue = [j \in 1..Len(items) |-> items[j].id],
                                   !.pc = IF items = <<>> THEN "recv" ELSE "unlink"]
          /\ devs' = devs
       \/ /\ devs > 0
          /\ devs' = devs - 1
          /\ del' = [del EXCEPT !.pc = "recv"]
    /\ UNCHANGED <<har, caseStored, actions, parameters, assertions, providers, runs, executions,
                   rt, task, spawned, nextUuid, runLog, chan, sweeps, senders, batches>>

\* unlink_test_case: one self.unlink(..).await of the loop; its result is
\* dropped.
UnlinkOne ==
    /\ del.pc = "unlink"
    /\ LET id == Head(del.queue)
       IN \/ /\ providers' = {IF p.id = id THEN [p EXCEPT !.linked = @ \ {TestCaseId}] ELSE p
                                : p \in providers}
             /\ devs' = devs
          \/ /\ devs > 0
             /\ devs' = devs - 1
             /\ providers' = providers
    /\ del' = [del EXCEPT !.queue = Tail(@),
                          !.pc = IF Len(del.queue) = 1 THEN "recv" ELSE "unlink"]
    /\ UNCHANGED <<har, caseStored, actions, parameters, assertions, runs, executions,
                   rt, task, spawned, nextUuid, runLog, chan, sweeps, senders, batches>>

\* delete_all_items: one turn of its loop.  A failed list_items leaves
\* next_page_key as it was and the loop goes round again.
SweepList(s) ==
    /\ s \in sweeps
    /\ \/ /\ LET result == list_items(PartitionItems(s.table, s.part), ListLimit,
                                      OptionOr(s.key, 0))
                 items == result.items
                 events == {build_deleted_event(s.table, items[j]) : j \in 1..Len(items)}
                 keys == [j \in 1..Len(items) |-> items[j].id]
             IN /\ senders' = senders \cup {e.val : e \in {x \in events : x.some}}
                /\ batches' = batches \cup
                      {[table |-> s.table, keys |-> c] : c \in Chunks(keys, BatchChunk)}
                /\ sweeps' = IF result.next_page_key.some
                             THEN (sweeps \ {s}) \cup {[s EXCEPT !.key = result.next_page_key]}
                             ELSE sweeps \ {s}
          /\ devs' = devs
       \/ /\ devs > 0
          /\ devs' = devs - 1
          /\ UNCHANGED <<senders, batches, sweeps>>
    /\ UNCHANGED <<har, caseStored, actions, parameters, assertions, providers, runs, executions,
                   rt, task, spawned, nextUuid, runLog, del, chan>>

\* the spawned cloned_sender.send(event).await
SenderSend(m) ==
    /\ m \in senders
    /\ Len(chan) < ChannelCapacity
    /\ chan' = Append(chan, m)
    /\ senders' = senders \ {m}
    /\ UNCHANGED <<har, caseStored, actions, parameters, assertions, providers, runs, executions,
                   rt, task, spawned, nextUuid, devs, runLog, del, sweeps, batches>>

Without(S, keys) == {x \in S : x.id \notin keys}

\* one spawned batch_write_item chunk of delete requests; an error is only
\* printed.
BatchWrite(b) ==
    /\ b \in batches
    /\ batches' = batches \ {b}
    /\ \/ /\ actions' = IF b.table = "actions" THEN Without(actions, b.keys) ELSE actions
          /\ parameters' = IF b.table = "parameters" THEN Without(parameters, b.keys)
                           ELSE parameters
          /\ assertions' = IF b.table = "assertions" THEN Without(assertions, b.keys)
                           ELSE assertions
          /\ runs' = IF b.table = "runs" THEN [r \in (DOMAIN runs) \ b.keys |-> runs[r]]
                     ELSE runs
          /\ executions' = IF b.table = "action_executions" THEN Without(executions, b.keys)
                           ELSE executions
          /\ devs' = devs
       \/ /\ devs > 0
          /\ devs' = devs - 1
          /\ UNCHANGED <<actions, parameters, assertions, runs, executions>>
    /\ UNCHANGED <<har, caseStored, providers, rt, task, spawned, nextUuid, runLog,
                   del, chan, sweeps, senders>>

(***************************************************************************)
(* Inference from a recording (har_resolver.rs).                           *)
(***************************************************************************)
\* The entries a HashMap holds after flatten_json_value, as a set of
\* [path, value]: one entry per scalar leaf; an empty object or array
\* inserts nothing.
RECURSIVE flatten_json_value(_, _, _, _)
flatten_json_value(action_name, prefix_type, value, prefix_so_far) ==
    LET NewPrefix(key) ==
            IF prefix_so_far = <<>>
            THEN CASE prefix_type = "Output" ->
                        <<"$", ".">> \o action_name \o <<".">> \o T_output \o <<".">> \o key
                   [] prefix_type = "Input" -> <<"$", ".">> \o key
                   [] prefix_type = "AssertionExpression" ->
                        <<"$", ".">> \o action_name \o <<".">> \o T_input \o <<".">> \o key
            ELSE prefix_so_far \o <<".">> \o key
    IN IF IsObj(value)
       THEN UNION {flatten_json_value(action_name, prefix_type, value.v[key], NewPrefix(key)) :
                     key \in DOMAIN value.v}
       ELSE IF IsArr(value)
       THEN UNION {flatten_json_value(action_name, prefix_type, value.v[j],
                                      prefix_so_far \o <<"[">> \o Digits(j - 1) \o <<"]">>) :
                     j \in 1..Len(value.v)}
       ELSE {[path |-> prefix_so_far, value |-> value]}

\* A recorded exchange is [url, method, query, headers, cookies, post,
\* content]: query, headers and cookies are sequences of [name, value];
\* post is an Option of [mime_type, text]; content is [mime_type, text];
\* mime_type of content and both texts are Options.  A body text is
\* [json |-> TRUE, value |-> x] when serde_json::from_str parses it to x and
\* [json |-> FALSE] when it is not JSON.
filter_entries(excluded_path_parts, entries) ==
    LET Kept(entry) ==
            /\ \A j \in 1..Len(excluded_path_parts) : ~Contains(entry.url, excluded_path_parts[j])
            /\ entry.post.some =>
                 \/ Contains(entry.post.val.mime_type, <<"j", "s", "o", "n">>)
                 \/ Contains(entry.post.val.mime_type,
                             <<"f", "o", "r", "m", "-", "u", "r", "l", "e", "n", "c", "o", "d", "e", "d">>)
            /\ entry.content.mime_type.some =>
                 Contains(entry.content.mime_type.val, <<"j", "s", "o", "n">>)
    IN SelectSeq2(entries, [j \in 1..Len(entries) |-> Kept(entries[j])])

\* The entries of the response index of the exchange at position order
\* (keys $.<action name>.output.<path>).
build_response_index(order, entry) ==
    IF entry.content.text.some /\ entry.content.text.val.json
    THEN flatten_json_value(build_action_name_from_url(order, entry.url), "Output",
                            entry.content.text.val.value, <<>>)
    ELSE {}

\* The entries of the request index (keys $.<action name>.input.<path>);
\* [panic |-> TRUE] where serde_json::from_str(text).unwrap() panics.
build_request_index(order, entry) ==
    IF /\ entry.post.some
       /\ entry.post.val.text.some
       /\ Contains(entry.post.val.mime_type,
                   <<"a", "p", "p", "l", "i", "c", "a", "t", "i", "o", "n", "/", "j", "s", "o", "n">>)
    THEN IF entry.post.val.text.val.json
         THEN [panic |-> FALSE,
               index |-> flatten_json_value(build_action_name_from_url(order, entry.url),
                                            "AssertionExpression", entry.post.val.text.val.value, <<>>)]
         ELSE [panic |-> TRUE, index |-> {}]
    ELSE [panic |-> FALSE, index |-> {}]

\* The resolver without rev(): the first index first.
resolve_value_expression_earliest_first(value, indexes) ==
    LET Hits(index) == SelectSeq2(index, [j \in 1..Len(index) |-> index[j].value = value])
        First(hits) == IF hits = <<>> THEN None ELSE Some(hits[1].path)
    IN First(Flat([k \in 1..Len(indexes) |-> Hits(indexes[k])]))

\* An index is the sequence of its [path, value] entries in the iteration
\* order of its HashMap.  indexes.iter().rev(): the last index first; the
\* first entry with an equal value gives the expression.
resolve_value_expression_from_slice_index(value, indexes) ==
    LET Hits(index) == SelectSeq2(index, [j \in 1..Len(index) |-> index[j].value = value])
        First(hits) == IF hits = <<>> THEN None ELSE Some(hits[1].path)
    IN First(Flat([k \in 1..Len(indexes) |-> Hits(indexes[Len(indexes) + 1 - k])]))

\* The resolver over every index, the own and the later ones included.
resolve_value_expression_from_all(order, value, response_indexes) ==
    resolve_value_expression_from_slice_index(value, response_indexes)

resolve_value_expression_from_prev(order, value, response_indexes) ==
    resolve_value_expression_from_slice_index(value, SubSeq(response_indexes, 1, order))

\* The url without its query string, each non-empty path segment replaced
\* by the expression found for it.  (url.replace(base_url, "") removes the
\* leading base url: no url of the recordings repeats it.)
build_url_without_query_params(order, url, response_indexes) ==
    LET Segment(seg) ==
            IF seg = <<>> THEN <<>>
            ELSE OptionOr(resolve_value_expression_from_prev(order, Str(seg), response_indexes), seg)
        Joined(parts) == Join([j \in 1..Len(parts) |-> Segment(parts[j])], "/")
        Of(base_url, u) == base_url \o Joined(Split(StripPrefix(u, base_url), "/"))
        NoQuery(q) == IF q = 0 THEN url ELSE SubSeq(url, 1, q - 1)
        Stripped(u) == Of(obtain_base_url(u), u)
    IN Stripped(NoQuery(IndexOf(url, "?")))

\* Every response value taken as assertable.
should_build_assertion_always(res_value) == res_value.t \in {"bool", "null", "str", "num", "float"}

should_build_assertion_for_response_value(res_value) ==
    ~(\/ res_value.t = "bool"
      \/ res_value.t = "null"
      \/ (res_value.t = "str" /\ Len(res_value.v) = 0)
      \/ (res_value.t = "arr" /\ Len(res_value.v) = 0))

\* The assertions of the action at position order, without their ids, in
\* the iteration order of its response index.  The slice of prior request
\* indexes is reversed before it is handed to the resolver.
build_assertions(order, request_indexes, response_indexes) ==
    LET Reversed(slice) == [k \in 1..Len(slice) |-> slice[Len(slice) + 1 - k]]
        Found(entry) ==
            IF should_build_assertion_for_response_value(entry.value)
            THEN resolve_value_expression_from_slice_index(
                     entry.value, Reversed(SubSeq(request_indexes, 1, order)))
            ELSE None
        Emitted(entry, expression) ==
            [left |-> from_expression(expression.val), right |-> from_expression(entry.path),
             comparison_type |-> "EqualTo", negate |-> FALSE]
        Of(response) ==
            Flat([j \in 1..Len(response) |->
                    IF Found(response[j]).some
                    THEN <<Emitted(response[j], Found(response[j]))>> ELSE <<>>])
    IN IF order + 1 <= Len(response_indexes) THEN Of(response_indexes[order + 1]) ELSE <<>>


\* The Input parameters of an action, without their ids: query, then body,
\* then headers.  (No recorded request carries post_data.params.)
build_action_input(action_id, order, request, response_indexes) ==
    LET Parameter(loc, path, value) ==
            [action_id |-> action_id, ptype |-> "Input", loc |-> loc, path |-> path,
             value |-> value,
             expr |-> resolve_value_expression_from_prev(order, value, response_indexes)]
        Query == [j \in 1..Len(request.query) |->
                    Parameter("Query", request.query[j].name, Str(request.query[j].value))]
        Leaves(flat) == [j \in 1..Len(flat) |-> Parameter("Body", flat[j].path, flat[j].value)]
        Body == IF request.post.some /\ request.post.val.text.some /\ request.post.val.text.val.json
                THEN Leaves(SeqOfSet(flatten_json_value(<<>>, "Input",
                                                        request.post.val.text.val.value, <<>>)))
                ELSE <<>>
        resolve_header_name(name) == SelectSeq2(name, [j \in 1..Len(name) |-> name[j] # ":"])
        is_auth_related_header(key) ==
            \E word \in {<<"a", "u", "t", "h", "o", "r", "i", "z", "a", "t", "i", "o", "n">>,
                         <<"t", "o", "k", "e", "n">>, <<"s", "e", "s", "s", "i", "o", "n">>,
                         <<"c", "s", "r", "f">>, <<"u", "s", "e", "r">>,
                         <<"o", "r", "i", "g", "i", "n">>, <<"c", "o", "o", "k", "i", "e">>,
                         <<"a", "u", "t", "h">>} : Contains(key, word)
        must_exclude_header(key) ==
            Contains(key, <<"c", "o", "n", "t", "e", "n", "t", "-", "l", "e", "n", "g", "t", "h">>)
        Header(name, value) ==
            IF is_auth_related_header(name) \/ must_exclude_header(name) THEN <<>>
            ELSE <<Parameter("Header", name, Str(value))>>
        Headers == Flat([j \in 1..Len(request.headers) |->
                           Header(resolve_header_name(request.headers[j].name),
                                  request.headers[j].value)])
    IN Query \o Body \o Headers

\* The Output parameters of an action, without their ids.
build_output_parameters(action_id, entry) ==
    LET Leaves(flat) ==
            [j \in 1..Len(flat) |->
               [action_id |-> action_id, ptype |-> "Output", loc |-> "Body",
                path |-> flat[j].path, value |-> flat[j].value, expr |-> None]]
    IN IF entry.content.text.some /\ entry.content.text.val.json
       THEN Leaves(SeqOfSet(flatten_json_value(<<>>, "Input", entry.content.text.val.value, <<>>)))
       ELSE <<>>

\* The auth-shaped headers and cookies of a request, by name.
build_auth_headers(request) ==
    LET Auth(name) ==
            \E word \in {<<"a", "u", "t", "h", "o", "r", "i", "z", "a", "t", "i", "o", "n">>,
                         <<"t", "o", "k", "e", "n">>, <<"s", "e", "s", "s", "i", "o", "n">>,
                         <<"c", "s", "r", "f">>, <<"u", "s", "e", "r">>,
                         <<"o", "r", "i", "g", "i", "n">>, <<"c", "o", "o", "k", "i", "e">>,
                         <<"a", "u", "t", "h">>} : Contains(name, word)
        Named(name) == SelectSeq2(name, [j \in 1..Len(name) |-> name[j] # ":"])
        Pairs(from, kept) == [j \in 1..Len(kept) |->
                                [name |-> IF from = "header" THEN Named(kept[j].name) ELSE kept[j].name,
                                 value |-> kept[j].value]]
        Filtered(from, items) ==
            Pairs(from, SelectSeq2(items, [j \in 1..Len(items) |-> Auth(items[j].name)]))
        Inserted(pairs) ==
            [name \in {pairs[j].name : j \in 1..Len(pairs)} |->
               pairs[CHOOSE j \in 1..Len(pairs) :
                       /\ pairs[j].name = name
                       /\ \A k \in (j + 1)..Len(pairs) : pairs[k].name # name].value]
    IN Inserted(Filtered("header", request.headers) \o Filtered("cookie", request.cookies))

\* build_test_case, up to the loop: the indexes of one position are built
\* (their HashMaps iterate in any order) ...
BuildIndex ==
    /\ har.pc = "index"
    /\ Len(har.response_indexes) < Len(har.entries)
    /\ LET Orders(S) == {o \in [1..Cardinality(S) -> S] :
                            \A j, k \in 1..Cardinality(S) : j # k => o[j] # o[k]}
           Of(response, request) ==
               IF request.panic THEN har' = [har EXCEPT !.pc = "panicked"]
               ELSE \E ro \in Orders(response), qo \in Orders(request.index) :
                       har' = [har EXCEPT !.response_indexes = Append(@, ro),
                                          !.request_indexes = Append(@, qo)]
           At(k) == Of(build_response_index(k, har.entries[k + 1]),
                       build_request_index(k, har.entries[k + 1]))
       IN At(Len(har.response_indexes))
    /\ UNCHANGED <<replayVars, cascadeVars>>

\* ... and the test case is created.
CreateTestCase ==
    /\ har.pc = "index"
    /\ Len(har.response_indexes) = Len(har.entries)
    /\ caseStored' = TRUE
    /\ har' = [har EXCEPT !.pc = "loop"]
    /\ UNCHANGED cascadeVars
    /\ UNCHANGED <<actions, parameters, assertions, providers, runs, executions,
                   rt, task, spawned, nextUuid, devs, runLog>>

\* One iteration of the loop of build_test_case: the action of position i is
\* built, its assertions and parameters are stored, and its auth headers
\* are kept for a new provider unless a supplied provider has its base url.
InferAction ==
    /\ har.pc = "loop"
    /\ har.i < Len(har.entries)
    /\ LET WithIds(items, base) == {[id |-> base + j] @@ items[j] : j \in 1..Len(items)}
           Merged(old, new) == [name \in DOMAIN old \cup DOMAIN new |->
                                  IF name \in DOMAIN new THEN new[name] ELSE old[name]]
           Kept(base_url, auth_headers) ==
               [b \in DOMAIN har.auth \cup {base_url} |->
                  IF b # base_url THEN har.auth[b]
                  ELSE IF b \in DOMAIN har.auth THEN Merged(har.auth[b], auth_headers)
                  ELSE auth_headers]
           Step(current, action, inputs, outputs, asserts, base_url) ==
               /\ assertions' = assertions \cup WithIds(asserts, nextUuid)
               /\ parameters' = parameters \cup WithIds(inputs \o outputs, nextUuid + Len(asserts))
               /\ nextUuid' = nextUuid + 1 + Len(asserts) + Len(inputs) + Len(outputs)
               /\ \/ /\ \A p \in providers : p.id \in har.supplied => p.base_url # base_url
                     /\ har' = [har EXCEPT !.i = @ + 1, !.actions = Append(@, action),
                                           !.auth = Kept(base_url, build_auth_headers(current))]
                     /\ providers' = providers
                  \/ \E m \in providers :
                        /\ m.id \in har.supplied
                        /\ m.base_url = base_url
                        /\ providers' = (providers \ {m})
                                          \cup {[m EXCEPT !.linked = @ \cup {TestCaseId}]}
                        /\ har' = [har EXCEPT !.i = @ + 1, !.actions = Append(@, action)]
           Of(current) ==
               Step(current,
                    [id |-> nextUuid, order |-> har.i,
                     name |-> build_action_name_from_url(har.i, current.url),
                     url |-> build_url_without_query_params(har.i, current.url, har.response_indexes),
                     method |-> current.method],
                    build_action_input(nextUuid, har.i, current, har.response_indexes),
                    build_output_parameters(nextUuid, current),
                    build_assertions(har.i, har.request_indexes, har.response_indexes),
                    obtain_base_url(current.url))
       IN Of(har.entries[har.i + 1])
    /\ UNCHANGED cascadeVars
    /\ UNCHANGED <<caseStored, actions, runs, executions, rt, task, spawned, devs, runLog>>

\* After the loop: create_auth_providers, then the actions are stored.
StoreActions ==
    /\ har.pc = "loop"
    /\ har.i = Len(har.entries)
    /\ LET HeadersOf(by_name, names) ==
               [k \in 1..Len(names) |->
                  [name |-> names[k], value |-> by_name[names[k]], disabled |-> FALSE]]
           Created(base_urls) ==
               {[id |-> MaxProviders + nextUuid + j, base_url |-> base_urls[j],
                 headers |-> HeadersOf(har.auth[base_urls[j]], SeqOfSet(DOMAIN har.auth[base_urls[j]])),
                 linked |-> {TestCaseId}] : j \in 1..Len(base_urls)}
       IN /\ providers' = providers \cup Created(SeqOfSet(DOMAIN har.auth))
          /\ nextUuid' = nextUuid + Cardinality(DOMAIN har.auth)
    /\ actions' = actions \cup {har.actions[j] : j \in 1..Len(har.actions)}
    /\ har' = [har EXCEPT !.pc = "done"]
    /\ UNCHANGED cascadeVars
    /\ UNCHANGED <<caseStored, parameters, assertions, runs, executions,
                   rt, task, spawned, devs, runLog>>

\* A request body is flattened into its body parameters
\* (build_body_parameters_from_value) ...
FlattenBody ==
    /\ har.pc = "flatten"
    /\ har' = [har EXCEPT !.pc = "feed",
                          !.pairs = flatten_json_value(<<>>, "Input", har.doc, <<>>)]
    /\ UNCHANGED <<replayVars, cascadeVars>>

\* ... the parameters are listed in the order of their ids, which is any
\* order ...
FeedPair ==
    /\ har.pc = "feed"
    /\ \E p \in har.pairs \ {har.fed[j] : j \in 1..Len(har.fed)} :
          har' = [har EXCEPT !.fed = Append(@, p)]
    /\ UNCHANGED <<replayVars, cascadeVars>>

\* ... and the body of the request is rebuilt from them
\* (build_http_request_body).
Reconstruct ==
    /\ har.pc = "feed"
    /\ har.pairs = {har.fed[j] : j \in 1..Len(har.fed)}
    /\ har' = [har EXCEPT !.pc = "rebuilt", !.out = reverse_flatten_all(har.fed)]
    /\ UNCHANGED <<replayVars, cascadeVars>>

(***************************************************************************)
(* Specifications of the replay.                                           *)
(***************************************************************************)
StoredCase(n, idOrder, badMethodAt, tpls, m, k) ==
    /\ caseStored = TRUE
    /\ actions = StoredActions(n, idOrder, badMethodAt)
    /\ parameters = StoredParameters(n, idOrder, tpls)
    /\ assertions = StoredAssertions(m)
    /\ providers = StoredProviders(k)

NothingRunning(calls) ==
    /\ runs = <<>>
    /\ executions = {}
    /\ rt = [pc |-> "idle", callsLeft |-> calls, last |-> "none"]
    /\ task = <<>>
    /\ spawned = {}
    /\ nextUuid = 1
    /\ runLog = <<>>

NothingDeleting(calls) ==
    /\ del = [pc |-> "idle", callsLeft |-> calls, queue |-> <<>>]
    /\ chan = <<>>
    /\ sweeps = {}
    /\ senders = {}
    /\ batches = {}

\* One run_test call on a small stored test case, or on a missing one.
Init ==
    /\ NothingRunning(1)
    /\ NothingDeleting(0)
    /\ har = [pc |-> "done"]
    /\ devs = MaxDeviations
    /\ \/ \E n \in 0..MaxActions, idOrder \in {"asc", "desc"}, m \in 0..MaxAssertions :
            \E badMethodAt \in {-1} \cup 0..(n - 1) :
              \E tpls \in {ts \in SUBSET ParamTemplates : Cardinality(ts) <= MaxParams} :
                /\ (n < 2 => idOrder = "asc" /\ tpls = {})
                /\ StoredCase(n, idOrder, badMethodAt, tpls, m, MaxProviders)
       \/ /\ caseStored = FALSE
          /\ actions = {} /\ parameters = {} /\ assertions = {}
          /\ providers = StoredProviders(MaxProviders)

Replay ==
    \/ RunTestGet
    \/ RunTestCreate
    \/ \E r \in DOMAIN task : ListActions(r)
    \/ \E r \in DOMAIN task : ListInputs(r)
    \/ \E r \in DOMAIN task : BuildRequest(r)
    \/ \E r \in DOMAIN task : \E result \in {DefaultOutcome} \cup OtherOutcomes : HttpReturn(r, result)
    \/ \E ae \in spawned : StoreExecution(ae)
    \/ \E r \in DOMAIN task : CheckAssertions(r)
    \/ \E r \in DOMAIN task : UpdateRun(r)

Next == Replay

Spec == Init /\ [][Next]_vars

\* One run_test call on a test case that has more actions, or more
\* assertions, than one page of a listing holds.
InitPaged ==
    /\ NothingRunning(1)
    /\ NothingDeleting(0)
    /\ har = [pc |-> "done"]
    /\ devs = 0
    /\ \E idOrder \in {"asc", "desc"} :
         \/ StoredCase(ListLimit + 1, idOrder, -1, {}, 0, 1)
         \/ /\ idOrder = "asc"
            /\ StoredCase(1, idOrder, -1, {}, ListLimit + 1, 1)
         \/ /\ idOrder = "asc"
            /\ caseStored = TRUE
            /\ actions = StoredActions(1, idOrder, -1)
            /\ parameters = StoredParameters(1, idOrder, {})
            /\ assertions = {}
            /\ providers = ProvidersOfOneBaseUrl(QueryLimit + 1)

SpecPaged == InitPaged /\ [][Next]_vars

(***************************************************************************)
(* Specifications of the cascade delete.                                   *)
(***************************************************************************)
\* A finished run of an earlier replay of the n stored actions.
FinishedRun == [status |-> "Finished", assertion_results |-> Some(<<>>)]

FinishedExecution(r, a) ==
    [id |-> 10 * r + a, run_id |-> r, action_id |-> a, status_code |-> 200,
     error |-> None, response_body |-> Some(Body0), request_body |-> None,
     query_params |-> <<>>]

\* One delete call on a test case at rest: nA actions with their
\* parameters, nR finished runs with their executions, m assertions and k
\* providers.  The store answers every request.
AtRest(nA, nR, m, k) ==
    /\ StoredCase(nA, "asc", -1, {"lit_query", "expr_body"}, m, k)
    /\ runs = [r \in 1..nR |-> FinishedRun]
    /\ runLog = [r \in 1..nR |-> <<"InProgress", "Finished">>]
    /\ executions = {FinishedExecution(r, a) : r \in 1..nR, a \in 1..nA}
    /\ rt = [pc |-> "idle", callsLeft |-> 0, last |-> "none"]
    /\ task = <<>>
    /\ spawned = {}
    /\ nextUuid = nR + 1

InitCascade ==
    /\ NothingDeleting(1)
    /\ har = [pc |-> "done"]
    /\ devs = 0
    /\ \/ \E nA \in 0..MaxChildren, nR \in 0..MaxChildren, m \in 0..MaxAssertions :
            /\ nA + nR <= MaxChildren
            /\ AtRest(nA, nR, m, MaxProviders)
       \/ AtRest(1, 0, ListLimit + 1, MaxProviders)
       \/ AtRest(0, 0, 0, QueryLimit + 1)

Cascade ==
    \/ DeleteCall
    \/ ConsumerRecv
    \/ UnlinkList
    \/ UnlinkOne
    \/ \E s \in sweeps : SweepList(s)
    \/ \E m \in senders : SenderSend(m)
    \/ \E b \in batches : BatchWrite(b)

NextCascade == Cascade

SpecCascade == InitCascade /\ [][NextCascade]_vars

\* One run_test call and one delete call on the same test case, stored or
\* not, in any interleaving of the replay and the cascade; storage requests
\* may fail.
InitDeleteDuringRun ==
    /\ NothingRunning(1)
    /\ NothingDeleting(1)
    /\ har = [pc |-> "done"]
    /\ devs = MaxDeviations
    /\ \/ StoredCase(1, "asc", -1, {}, 0, 1)
       \/ /\ caseStored = FALSE
          /\ actions = {} /\ parameters = {} /\ assertions = {}
          /\ providers = StoredProviders(1)

NextDeleteDuringRun == Replay \/ Cascade

SpecDeleteDuringRun == InitDeleteDuringRun /\ [][NextDeleteDuringRun]_vars

\* One run_test call on a test case of one action and two assertions a user
\* stored (PUT /test-cases/:id/assertions, then PATCH .../negation): the
\* same comparison of the same operands, once plain and once negated.  The
\* operands are literals, or expressions into the output of the action.
InitAssert ==
    /\ NothingRunning(1)
    /\ NothingDeleting(0)
    /\ har = [pc |-> "done"]
    /\ devs = MaxDeviations
    /\ caseStored = TRUE
    /\ actions = StoredActions(1, "asc", -1)
    /\ parameters = StoredParameters(1, "asc", {})
    /\ providers = StoredProviders(1)
    /\ LET Out(tail) == from_expression(<<"$", ".">> \o ActionName(0) \o <<".">> \o T_output \o tail)
           Items == {from_value(Str(<<"a", " ", "m", "e", "s", "s", "a", "g", "e">>)),
                     from_value(Str(<<"m", "e", "s", "s", "a", "g", "e">>)),
                     from_value(Str(<<"c">>)),
                     from_value(Num(5)),
                     from_value(Num(9)),
                     Out(<<".">> \o T_id),
                     Out(<<".">> \o T_tags \o <<"[", "*", "]">>),
                     Out(<<".">> \o T_tags \o <<"[", "0", "]">>),
                     from_expression(ActionName(0) \o <<".">> \o T_output \o <<".">> \o T_id),
                     [function |-> None, value_provider |-> None],
                     [function |-> None,
                      value_provider |-> Some([expression |-> None, value |-> None])],
                     [function |-> Some([operation |-> "Sum",
                                         parameters |-> <<[expression |-> None,
                                                           value |-> Some(Num(5))]>>]),
                      value_provider |-> None]}
           ComparisonTypes == {"EqualTo", "Contains", "GreaterThan", "GreaterThanOrEqualTo",
                               "LessThan", "LessThanOrEqualTo"}
       IN \E l \in Items, r \in Items, ct \in ComparisonTypes :
            assertions = {[id |-> id, left |-> l, right |-> r, comparison_type |-> ct,
                           negate |-> (id = 2)] : id \in 1..2}

SpecAssert == InitAssert /\ [][Next]_vars

(***************************************************************************)
(* Two Runs of one test case: run_test is called twice and the two replay  *)
(* tasks interleave.  The second action takes its query parameter from the *)
(* response of the first, and the assertion reads the same response.       *)
(***************************************************************************)
InitPair ==
    /\ NothingRunning(2)
    /\ NothingDeleting(0)
    /\ har = [pc |-> "done"]
    /\ devs = MaxDeviations
    /\ \E badMethodAt \in {-1, 1} : StoredCase(2, "asc", badMethodAt, {"expr_query"}, 1, 1)

SpecPair == InitPair /\ [][Next]_vars

\* A JSON request body about to be flattened and rebuilt: an object of at
\* most two members whose values are scalars, objects or arrays of at most
\* MaxElems elements.
InitFlatten ==
    /\ NothingRunning(0)
    /\ NothingDeleting(0)
    /\ devs = 0
    /\ caseStored = FALSE
    /\ actions = {} /\ parameters = {} /\ assertions = {} /\ providers = {}
    /\ LET Elems == {Num(1), EmptyObj, Obj(<<"x">> :> Str(<<"s">>)), Arr(<<Num(1)>>)}
           Arrays == UNION {[1..n -> Elems] : n \in 0..MaxElems}
           Members == {Num(1), Null, EmptyObj, Obj(<<"x">> :> Num(2) @@ <<"y">> :> Str(<<"s">>))}
                        \cup {Arr(a) : a \in Arrays}
           Keys == {<<"a">>, <<"k", ".", "b">>}
       IN \E ks \in SUBSET Keys : \E f \in [ks -> Members] :
            har = [pc |-> "flatten", doc |-> Obj(f), pairs |-> {}, fed |-> <<>>, out |-> Panic]

NextFlatten ==
    \/ FlattenBody
    \/ FeedPair
    \/ Reconstruct

SpecFlatten == InitFlatten /\ [][NextFlatten]_vars

\* The exchanges of the recordings.
Exchange(kind) ==
    LET Json == <<"a", "p", "p", "l", "i", "c", "a", "t", "i", "o", "n", "/", "j", "s", "o", "n">>
        Users == BaseUrl \o <<"/", "u", "s", "e", "r", "s">>
        R1 == <<"r", "1">>
        N1 == <<"n", "1">>
        T1 == <<"t", "1">>
        Text(x) == Some([json |-> TRUE, value |-> x])
        NotJson == Some([json |-> FALSE])
        Entry(url, method, query, headers, post, mime, text) ==
            [url |-> url, method |-> method, query |-> query, headers |-> headers,
             cookies |-> <<>>, post |-> post, content |-> [mime_type |-> mime, text |-> text]]
    IN CASE kind = "list" ->
              Entry(Users \o <<"?", "p", "a", "g", "e", "=", "2">>, <<"G", "E", "T">>,
                    <<[name |-> <<"p", "a", "g", "e">>, value |-> <<"2">>]>>,
                    <<[name |-> <<"a", "u", "t", "h", "o", "r", "i", "z", "a", "t", "i", "o", "n">>,
                       value |-> <<"s", "e", "c", "r", "e", "t">>]>>,
                    None, Some(Json),
                    Text(Obj(T_id :> Str(R1) @@ T_tags :> Arr(<<Str(R1)>>))))
         [] kind = "create" ->
              Entry(Users, <<"P", "O", "S", "T">>, <<>>,
                    <<[name |-> <<"c", "o", "n", "t", "e", "n", "t", "-", "l", "e", "n", "g", "t", "h">>,
                       value |-> <<"9">>],
                      [name |-> <<"x", "-", "t", "a", "g">>, value |-> T1],
                      [name |-> <<"X", "-", "C", "s", "r", "f">>, value |-> <<"c", "2">>]>>,
                    Some([mime_type |-> Json,
                          text |-> Text(Obj(<<"n", "a", "m", "e">> :> Str(N1)
                                            @@ <<"f", "l", "a", "g">> :> Bool(TRUE)))]),
                    Some(Json),
                    Text(Obj(T_id :> Str(R1) @@ <<"n", "a", "m", "e">> :> Str(N1))))
         [] kind = "item" ->
              Entry(Users \o <<"/">> \o R1 \o <<"/", "i", "t", "e", "m", "s", "?", "n", "a", "m", "e", "=">> \o N1,
                    <<"G", "E", "T">>,
                    <<[name |-> <<"n", "a", "m", "e">>, value |-> N1]>>,
                    <<[name |-> <<":", "x", "-", "r", "e", "f">>, value |-> N1]>>,
                    None, Some(Json),
                    Text(Obj(<<"o", "w", "n", "e", "r">> :> Str(N1)
                             @@ <<"f", "l", "a", "g">> :> Bool(TRUE))))
         [] kind = "erase" ->
              Entry(OtherBaseUrl \o <<"/", "u", "s", "e", "r", "s">>, <<"P", "U", "T">>, <<>>, <<>>,
                    Some([mime_type |-> Json,
                          text |-> Text(Obj(<<"n", "o", "t", "e">> :> Str(<<>>)
                                            @@ <<"g", "o", "n", "e">> :> Null))]),
                    Some(Json),
                    Text(Obj(<<"n", "o", "t", "e">> :> Str(<<>>) @@ <<"g", "o", "n", "e">> :> Null)))
         [] kind = "bad_response" ->
              Entry(OtherBaseUrl \o <<"/", "p", "i", "n", "g">>, <<"G", "E", "T">>, <<>>,
                    <<[name |-> <<"x", "-", "c", "s", "r", "f">>, value |-> <<"c", "1">>]>>,
                    None, Some(Json), NotJson)
         [] kind = "bad_request" ->
              Entry(Users, <<"P", "O", "S", "T">>, <<>>, <<>>,
                    Some([mime_type |-> Json, text |-> NotJson]),
                    None, Text(Obj(T_id :> Str(R1))))
         [] kind = "html" ->
              Entry(BaseUrl \o <<"/">>, <<"G", "E", "T">>, <<>>, <<>>,
                    None, Some(<<"t", "e", "x", "t", "/", "h", "t", "m", "l">>), NotJson)

\* build_test_case called on a recording of at most MaxEntries exchanges,
\* with the existing provider of BaseUrl supplied.
InitHar ==
    /\ NothingRunning(0)
    /\ NothingDeleting(0)
    /\ devs = 0
    /\ caseStored = FALSE
    /\ actions = {} /\ parameters = {} /\ assertions = {}
    /\ providers = {[StoredProvider(id) EXCEPT !.linked = {OtherTestCaseId}] : id \in 1..MaxProviders}
    /\ \E n \in 0..MaxEntries, supplied \in {{1}} :
         \E kinds \in [1..n -> {"list", "create", "item", "erase", "bad_response", "bad_request",
                               "html"}] :
            har = [pc |-> "index",
                   entries |-> filter_entries(<<>>, [j \in 1..n |-> Exchange(kinds[j])]),
                   supplied |-> supplied,
                   response_indexes |-> <<>>, request_indexes |-> <<>>,
                   i |-> 0, actions |-> <<>>, auth |-> <<>>]

NextHar ==
    \/ BuildIndex
    \/ CreateTestCase
    \/ InferAction
    \/ StoreActions

SpecHar == InitHar /\ [][NextHar]_vars

(***************************************************************************)
(* Properties.                                                             *)
(***************************************************************************)

\* C1: the stored status of a Run is written as InProgress once, at its
\* creation, and as Finished at most once after that; no other status is
\* ever written, nothing is written after Finished, and the stored status is
\* the last one written.  A task that ended its replay wrote Finished once.
C1_StatusWrittenOnce ==
    \A r \in DOMAIN runLog :
        /\ runLog[r] \in {<<"InProgress">>, <<"InProgress", "Finished">>}
        /\ r \in DOMAIN runs => runs[r].status = runLog[r][Len(runLog[r])]
        /\ (r \in DOMAIN task /\ task[r].pc = "done") => runLog[r] = <<"InProgress", "Finished">>

C1_Witness ==
    \E r \in DOMAIN task :
        /\ task[r].pc = "done"
        /\ runLog[r] = <<"InProgress", "Finished">>
        /\ runs[r].status = "Finished"

\* C2: the HTTP calls of a Run are started in strictly ascending `order`,
\* following the sorted action list; at most one call is in flight, and a
\* call is started only when every earlier call has returned and its entry
\* is in the context.
C2_OneCallAtATimeInOrder ==
    \A r \in DOMAIN task :
        /\ \A j \in 1..Len(task[r].calls) : task[r].calls[j] = task[r].acts[j].order
        /\ \A j \in 1..(Len(task[r].calls) - 1) : task[r].calls[j] < task[r].calls[j + 1]
        /\ Len(task[r].calls) - Len(task[r].outcomes) = IF task[r].pc = "http" THEN 1 ELSE 0
        /\ \A j \in 1..Len(task[r].outcomes) : task[r].acts[j].name \in DOMAIN task[r].context.v
        /\ task[r].pc = "http" =>
              /\ task[r].i = Len(task[r].calls)
              /\ \A j \in 1..(task[r].i - 1) : task[r].acts[j].name \in DOMAIN task[r].context.v

C2_Witness ==
    \E r \in DOMAIN task :
        /\ task[r].pc = "http"
        /\ task[r].calls = <<0, 1>>
        /\ Len(task[r].outcomes) = 1
        /\ \E a \in actions : a.order = 0 /\ a.id > 1

\* C3: a Run stored as Finished has had the HTTP call of every action
\* stored for its test case started exactly once.
C3_FinishedAfterEveryAction ==
    \A r \in DOMAIN task :
        runs[r].status = "Finished" =>
            \A a \in actions :
                Cardinality({j \in 1..Len(task[r].calls) : task[r].calls[j] = a.order}) = 1

\* C4: a Run stored as Finished stores exactly one AssertionResult for each
\* assertion stored for its test case, the result of checking it against
\* the context after the last action.
C4_OneResultPerAssertion ==
    \A r \in DOMAIN task :
        runs[r].status = "Finished" =>
            /\ Len(runs[r].assertion_results.val) = Cardinality(assertions)
            /\ \A a \in assertions :
                 \E j \in 1..Len(runs[r].assertion_results.val) :
                    runs[r].assertion_results.val[j] = check_assertion(a, task[r].context)

\* C5: no ActionExecution carries both an error and a response body, and
\* when an HTTP call returns a failure (error status or transport error)
\* the step hands over an ActionExecution of that action with an error and
\* no response body, merges an entry with output = null, and moves on to
\* the next action of the list (or to the assertions after the last one).
C5_FailureRecordedAndReplayGoesOn ==
    /\ [](\A ae \in spawned \cup executions : ae.error.some <=> ~ae.response_body.some)
    /\ [][\A r \in DOMAIN task :
            (/\ task[r].pc = "http"
             /\ Len(task'[r].outcomes) = Len(task[r].outcomes) + 1
             /\ Last(task'[r].outcomes) \in {"status", "io"})
            => /\ \E ae \in spawned' \ spawned :
                    /\ ae.run_id = r
                    /\ ae.action_id = task[r].acts[task[r].i].id
                    /\ ae.error.some
                    /\ ~ae.response_body.some
               /\ task'[r].context.v[task[r].acts[task[r].i].name].v[T_output] = Null
               /\ task'[r].i = task[r].i + 1
               /\ task'[r].pc = IF task[r].i < Len(task[r].acts) THEN "list_inputs" ELSE "assert"
               /\ task'[r].acts = task[r].acts]_vars

C5_Witness ==
    \E r \in DOMAIN task :
        /\ task[r].outcomes = <<"status">>
        /\ task[r].calls = <<0, 1>>
        /\ \E ae \in executions : ae.run_id = r /\ ae.error.some /\ ae.status_code = 500

\* C6: a replay task never stops before its Run is stored as Finished.
C6_NoRunLeftInProgress ==
    \A r \in DOMAIN task : Stopped(r) => runs[r].status = "Finished"

\* C7: in the request of a call in flight, a parameter with an expression
\* that matches the context carries the first result of the query, a
\* parameter without an expression carries its literal, and each is there
\* under its own key only once.
C7_ExpressionResultReplacesLiteral ==
    \A r \in DOMAIN task :
        task[r].pc = "http" =>
            \A j \in 1..Len(task[r].params) :
                LET p == task[r].params[j]
                    found == IF p.expr.some THEN evaluate_expression(task[r].context, p.expr.val)
                             ELSE Ok(<<p.value>>)
                    sent == IF p.loc = "Query" THEN task[r].req.query ELSE task[r].req.headers
                IN (found.ok /\ Len(found.val) > 0) =>
                      IF p.loc = "Body"
                      THEN /\ task[r].req.body.some
                           /\ evaluate_expression(task[r].req.body.val, p.path)
                                = Ok(<<found.val[1]>>)
                      ELSE /\ \E k \in 1..Len(sent) :
                                sent[k] = [key |-> p.path, value |-> Render(found.val[1])]
                           /\ \A k \in 1..Len(sent) :
                                sent[k].key = p.path => sent[k].value = Render(found.val[1])

C7_Witness ==
    \E r \in DOMAIN task :
        /\ task[r].pc = "http"
        /\ \E j \in 1..Len(task[r].params), k \in 1..Len(task[r].req.query) :
             /\ task[r].params[j].expr.some
             /\ task[r].params[j].loc = "Query"
             /\ task[r].params[j].value = CapturedId
             /\ task[r].req.query[k] = [key |-> task[r].params[j].path, value |-> <<"r", "1">>]
        /\ \E j \in 1..Len(task[r].params), k \in 1..Len(task[r].req.query) :
             /\ ~task[r].params[j].expr.some
             /\ task[r].req.query[k] = [key |-> task[r].params[j].path, value |-> <<"c", "a", "p">>]

\* C8: in the request of a call in flight, a parameter whose expression
\* yields zero results is absent from its place (query, headers or body),
\* every parameter whose evaluation yields a value is present, and the
\* building of a request with a valid method whose body parameters do not
\* clash always ends with the call being started.
C8_EmptyResultDropsOnlyThatParameter ==
    /\ [](\A r \in DOMAIN task :
            task[r].pc = "http" =>
                \A j \in 1..Len(task[r].params) :
                    LET p == task[r].params[j]
                        found == IF p.expr.some
                                 THEN evaluate_expression(task[r].context, p.expr.val)
                                 ELSE Ok(<<p.value>>)
                        sent == IF p.loc = "Query" THEN task[r].req.query
                                ELSE task[r].req.headers
                        inBody == IF task[r].req.body.some
                                  THEN evaluate_expression(task[r].req.body.val, p.path).val
                                  ELSE <<>>
                    IN /\ (found.ok /\ found.val = <<>>) =>
                            IF p.loc = "Body" THEN inBody = <<>>
                            ELSE \A k \in 1..Len(sent) : sent[k].key # p.path
                       /\ (found.ok /\ found.val # <<>>) =>
                            IF p.loc = "Body" THEN inBody # <<>>
                            ELSE \E k \in 1..Len(sent) : sent[k].key = p.path)
    /\ [][\A r \in DOMAIN task :
            (/\ task[r].pc = "build"
             /\ task'[r].pc # "build"
             /\ devs' = devs
             /\ HttpMethod_from_str(task[r].acts[task[r].i].method).ok
             /\ \A j \in 1..Len(task[r].params) :
                  task[r].params[j].path # <<"$", ".", "u", "s", "e", "r">>)
            => task'[r].pc = "http"]_vars

C8_Witness ==
    \E r \in DOMAIN task :
        /\ task[r].pc = "http"
        /\ Len(task[r].params) = 2
        /\ \E j \in 1..2 :
             /\ task[r].params[j].expr.some
             /\ evaluate_expression(task[r].context, task[r].params[j].expr.val) = Ok(<<>>)
             /\ task[r].params[j].loc = "Header"
             /\ \A k \in 1..Len(task[r].req.headers) :
                  task[r].req.headers[k].key # task[r].params[j].path
        /\ Len(task[r].req.query) = 1

\* C9: after k actions have returned, the context holds exactly k entries,
\* one under the name of each of the first k actions, each an object with
\* exactly the keys input and output; an entry, once merged, stays as it is.
C9_ContextGrowsByOneEntryPerAction ==
    /\ [](\A r \in DOMAIN task :
            /\ DOMAIN task[r].context.v
                 = {task[r].acts[j].name : j \in 1..Len(task[r].outcomes)}
            /\ Cardinality(DOMAIN task[r].context.v) = Len(task[r].outcomes)
            /\ \A key \in DOMAIN task[r].context.v :
                 /\ IsObj(task[r].context.v[key])
                 /\ DOMAIN task[r].context.v[key].v = {T_input, T_output})
    /\ [][\A r \in DOMAIN task :
            \A key \in DOMAIN task[r].context.v :
                /\ key \in DOMAIN task'[r].context.v
                /\ task'[r].context.v[key] = task[r].context.v[key]]_vars

C9_Witness ==
    \E r \in DOMAIN task :
        /\ Len(task[r].outcomes) = 2
        /\ Cardinality(DOMAIN task[r].context.v) = 2
        /\ task[r].context.v[ActionName(0)].v[T_output] = Body0
        /\ task[r].context.v[ActionName(1)].v[T_output] = Body1

\* C10: once the delete call has returned and every task of the cascade has
\* run to its end, no action, parameter, assertion, run or action execution
\* of the test case is stored and no provider holds the id of the test case.
C10_CascadeLeavesNothing ==
    (/\ del.callsLeft = 0
     /\ del.pc = "recv"
     /\ chan = <<>>
     /\ sweeps = {}
     /\ senders = {}
     /\ batches = {})
    => /\ actions = {}
       /\ parameters = {}
       /\ assertions = {}
       /\ DOMAIN runs = {}
       /\ executions = {}
       /\ \A p \in providers : TestCaseId \notin p.linked

\* C11: for every comparison type and every pair of operand lists, the
\* assertion with negate = true succeeds exactly when the same assertion
\* with negate = false fails.
C11_NegateFlipsTheOutcome ==
    \A r \in DOMAIN runs :
        runs[r].status = "Finished" =>
            \A a \in assertions, b \in assertions :
                (/\ a.left = b.left /\ a.right = b.right
                 /\ a.comparison_type = b.comparison_type
                 /\ ~a.negate /\ b.negate
                 /\ AssertionItem_supply(a.left, task[r].context).ok
                 /\ AssertionItem_supply(a.right, task[r].context).ok)
                => \A j, k \in 1..Len(runs[r].assertion_results.val) :
                      (/\ runs[r].assertion_results.val[j].assertion_id = a.id
                       /\ runs[r].assertion_results.val[k].assertion_id = b.id)
                      => (runs[r].assertion_results.val[k].success
                            = ~runs[r].assertion_results.val[j].success)

\* C20: a Contains assertion succeeds, whatever negate is, when every
\* right value is a member of the left list; otherwise, when both lists
\* hold one element, it succeeds exactly when (the quote-trimmed text of
\* the right element is a substring of the text of the left element) XOR
\* negate; otherwise it fails as "cannot be compared".
C20_ContainsMembersThenSubstring ==
    \A r \in DOMAIN runs :
        runs[r].status = "Finished" =>
            \A a \in assertions :
                (/\ a.comparison_type = "Contains"
                 /\ AssertionItem_supply(a.left, task[r].context).ok
                 /\ AssertionItem_supply(a.right, task[r].context).ok)
                => LET Expected(left, right, res) ==
                           IF \A j \in 1..Len(right) : \E i \in 1..Len(left) : left[i] = right[j]
                           THEN res.success
                           ELSE IF Len(left) = 1 /\ Len(right) = 1
                           THEN res.success
                                  = (Contains(ToJsonText(left[1]), TrimQuotes(ToJsonText(right[1])))
                                       # a.negate)
                           ELSE /\ ~res.success
                                /\ res.message = Some("cannot be compared with contains")
                   IN \A j \in 1..Len(runs[r].assertion_results.val) :
                         runs[r].assertion_results.val[j].assertion_id = a.id
                         => Expected(AssertionItem_supply(a.left, task[r].context).val,
                                     AssertionItem_supply(a.right, task[r].context).val,
                                     runs[r].assertion_results.val[j])

\* A finished run of Contains on left ["a message"], right ["message"]: the
\* plain assertion succeeded by the substring test, the negated one failed.
C20_Witness ==
    \E r \in DOMAIN runs :
        /\ runs[r].status = "Finished"
        /\ \E a \in assertions, b \in assertions :
             /\ a.comparison_type = "Contains" /\ b.comparison_type = "Contains"
             /\ ~a.negate /\ b.negate
             /\ a.left = from_value(Str(<<"a", " ", "m", "e", "s", "s", "a", "g", "e">>))
             /\ a.right = from_value(Str(<<"m", "e", "s", "s", "a", "g", "e">>))
             /\ b.left = a.left /\ b.right = a.right
             /\ \E j, k \in 1..Len(runs[r].assertion_results.val) :
                  /\ runs[r].assertion_results.val[j] = of_success(a.id)
                  /\ runs[r].assertion_results.val[k].assertion_id = b.id
                  /\ ~runs[r].assertion_results.val[k].success

\* C12: rebuilding a JSON object from the (path, leaf) pairs of its
\* flattening under the bare `$.key` prefix, fed in any order, gives the
\* object back; the one difference allowed is an empty object at an array
\* index for which no pair exists.
C12_FlattenThenRebuildIsIdentity ==
    har.pc = "rebuilt" =>
        /\ ~har.out.panic
        /\ LET RECURSIVE Same(_, _)
               Same(x, y) ==
                   IF IsObj(x) /\ IsObj(y)
                   THEN /\ DOMAIN x.v = DOMAIN y.v
                        /\ \A key \in DOMAIN x.v : Same(x.v[key], y.v[key])
                   ELSE IF IsArr(x) /\ IsArr(y)
                   THEN /\ Len(x.v) = Len(y.v)
                        /\ \A j \in 1..Len(x.v) :
                              \/ Same(x.v[j], y.v[j])
                              \/ /\ y.v[j] = EmptyObj
                                 /\ flatten_json_value(<<>>, "Input", x.v[j], <<"p">>) = {}
                   ELSE x = y
           IN Same(har.doc, Obj(har.out.f))

\* C13: resolve_value_expression_from_prev returns None when no response
\* index of an exchange before position order stores an equal value, and
\* otherwise a path of the index of the latest such exchange.
C13_ResolverTakesTheLatestPriorExchange ==
    har.pc \in {"loop", "done"} =>
        \A order \in 0..Len(har.response_indexes) :
            \A value \in {Str(<<"r", "1">>), Str(<<"n", "1">>), Str(<<"t", "1">>), Bool(TRUE)} :
                LET Stores(j) == \E k \in 1..Len(har.response_indexes[j]) :
                                    har.response_indexes[j][k].value = value
                    Matches(found) ==
                        IF \A j \in 1..order : ~Stores(j) THEN found = None
                        ELSE /\ found.some
                             /\ \E j \in 1..order :
                                   /\ Stores(j)
                                   /\ \A later \in (j + 1)..order : ~Stores(later)
                                   /\ \E k \in 1..Len(har.response_indexes[j]) :
                                         /\ har.response_indexes[j][k].path = found.val
                                         /\ har.response_indexes[j][k].value = value
                IN Matches(resolve_value_expression_from_prev(order, value, har.response_indexes))

\* An inference run stored an Input parameter whose value two earlier
\* responses hold: its expression is a path of the later one.
C13_Witness ==
    /\ har.pc = "done"
    /\ \E p \in parameters, a \in actions :
         /\ p.ptype = "Input" /\ p.expr.some /\ a.id = p.action_id
         /\ \E j1 \in 1..a.order, j2 \in 1..a.order :
               /\ j1 < j2
               /\ \E k \in 1..Len(har.response_indexes[j1]) :
                     har.response_indexes[j1][k].value = p.value
               /\ \E k \in 1..Len(har.response_indexes[j2]) :
                     /\ har.response_indexes[j2][k].value = p.value
                     /\ har.response_indexes[j2][k].path = p.expr.val

\* C14: every value expression of an Input parameter of the action at
\* position i, and every expression put in place of a segment of its url,
\* is a key of the response index of an exchange before i, and the value
\* under that key equals the recorded literal (the replaced segment).
C14_ExpressionsPointAtEarlierResponses ==
    \A n \in 1..Len(har.actions) :
        LET KeyBefore(order, path, value) ==
                \E j \in 1..order : \E k \in 1..Len(har.response_indexes[j]) :
                    /\ har.response_indexes[j][k].path = path
                    /\ har.response_indexes[j][k].value = value
            Segments(url) == Split(StripPrefix(url, obtain_base_url(url)), "/")
            Recorded(url) == Segments(IF IndexOf(url, "?") = 0 THEN url
                                      ELSE SubSeq(url, 1, IndexOf(url, "?") - 1))
            SameUrl(action, recorded, stored) ==
                /\ Len(recorded) = Len(stored)
                /\ \A k \in 1..Len(stored) :
                      \/ stored[k] = recorded[k]
                      \/ KeyBefore(action.order, stored[k], Str(recorded[k]))
            Of(action) ==
                /\ action.order = n - 1
                /\ SameUrl(action, Recorded(har.entries[n].url), Segments(action.url))
                /\ \A p \in parameters :
                      (p.action_id = action.id /\ p.ptype = "Input" /\ p.expr.some)
                      => KeyBefore(action.order, p.expr.val, p.value)
        IN Of(har.actions[n])

\* An inference run built an action whose url holds an expression and
\* which has an Input parameter with a value expression.
C14_Witness ==
    /\ har.pc = "done"
    /\ \E a \in actions :
         /\ a.url # (IF IndexOf(har.entries[a.order + 1].url, "?") = 0
                     THEN har.entries[a.order + 1].url
                     ELSE SubSeq(har.entries[a.order + 1].url, 1,
                                 IndexOf(har.entries[a.order + 1].url, "?") - 1))
         /\ \E p \in parameters : p.action_id = a.id /\ p.ptype = "Input" /\ p.expr.some

\* C15: the assertions stored for the action at position i are, one for
\* one, the leaves of its response index that are assertable (not a
\* boolean, not null, not the empty string) and whose value a request
\* index of an earlier exchange stores; each is EqualTo, not negated, its
\* right side the path of the leaf and its left side a path of an earlier
\* request index that stores an equal value.
C15_AssertionIffAssertableAndSentBefore ==
    \A n \in 1..Len(har.actions) :
        LET SentBefore(value) ==
                {q \in UNION {{har.request_indexes[j][k] : k \in 1..Len(har.request_indexes[j])} :
                                j \in 1..(n - 1)} : q.value = value}
            Assertable(value) ==
                value.t # "bool" /\ value.t # "null" /\ value # Str(<<>>)
            For(leaf) == {s \in assertions : s.right = from_expression(leaf.path)}
            Leaf(leaf) ==
                /\ For(leaf) # {} <=> (Assertable(leaf.value) /\ SentBefore(leaf.value) # {})
                /\ Cardinality(For(leaf)) <= 1
                /\ \A s \in For(leaf) :
                      /\ s.comparison_type = "EqualTo"
                      /\ ~s.negate
                      /\ \E q \in SentBefore(leaf.value) : s.left = from_expression(q.path)
        IN \A k \in 1..Len(har.response_indexes[n]) : Leaf(har.response_indexes[n][k])

\* An inference run stored an assertion for a response leaf whose value an
\* earlier request sent, and none for a boolean, null or empty leaf an
\* earlier request sent as well.
C15_Witness ==
    /\ har.pc = "done"
    /\ \E n \in 2..Len(har.actions) :
         \E k1 \in 1..Len(har.response_indexes[n]), k2 \in 1..Len(har.response_indexes[n]) :
            /\ \E s \in assertions : s.right = from_expression(har.response_indexes[n][k1].path)
            /\ har.response_indexes[n][k2].value \in {Bool(TRUE), Null, Str(<<>>)}
            /\ \E j \in 1..(n - 1) : \E k \in 1..Len(har.request_indexes[j]) :
                  har.request_indexes[j][k].value = har.response_indexes[n][k2].value
            /\ \A s \in assertions : s.right # from_expression(har.response_indexes[n][k2].path)

\* C19: an inference run never aborts on a body that is not JSON: the
\* exchange has an empty index on that side and no body (output)
\* parameters, and the run goes on to store the action of every exchange.
C19_BadBodyNeverAbortsInference ==
    /\ har.pc # "panicked"
    /\ har.pc = "done" =>
         \A n \in 1..Len(har.entries) :
            LET NotJson(text) == text.some /\ ~text.val.json
                Of(entry) ==
                    \E a \in actions :
                        /\ a.order = n - 1
                        /\ NotJson(entry.content.text) =>
                             /\ har.response_indexes[n] = <<>>
                             /\ \A p \in parameters : ~(p.action_id = a.id /\ p.ptype = "Output")
                        /\ (entry.post.some /\ NotJson(entry.post.val.text)) =>
                             /\ har.request_indexes[n] = <<>>
                             /\ \A p \in parameters :
                                   ~(p.action_id = a.id /\ p.ptype = "Input" /\ p.loc = "Body")
            IN Of(har.entries[n])

\* C18: run_test on a test case that is not stored answers NotFound, stores
\* no Run and executes nothing; on a stored test case the Run is stored as
\* InProgress before the replay task takes its first step, and run_test
\* returns it at that moment, no action yet called.
C18_NotFoundOrInProgressThenReturn ==
    /\ [](~caseStored =>
            /\ runs = <<>> /\ task = <<>> /\ executions = {} /\ spawned = {}
            /\ (rt.callsLeft = 0 /\ rt.pc = "idle") => rt.last \in {"NotFound", "Internal"})
    /\ [](\A r \in DOMAIN task : r \in DOMAIN runLog /\ runLog[r][1] = "InProgress")
    /\ [][(rt.pc = "create" /\ rt'.last = "Ok") =>
            \E r \in DOMAIN runs' \ DOMAIN runs :
                /\ runs'[r] = [status |-> "InProgress", assertion_results |-> None]
                /\ task'[r].pc = "list_actions"
                /\ task'[r].calls = <<>>
                /\ \A ae \in spawned' \cup executions' : ae.run_id # r]_vars

\* run_test has returned the Run, which is stored InProgress, and its replay
\* task has not taken a step.
C18_Witness ==
    /\ rt.last = "Ok" /\ rt.pc = "idle"
    /\ \E r \in DOMAIN runs :
         /\ runs[r].status = "InProgress"
         /\ task[r].pc = "list_actions"
         /\ actions # {}

\* C17: once the replay task of a Run has stopped and no write is pending,
\* exactly one ActionExecution record is stored for every action the Run
\* executed; and a stored record is never changed or removed by the replay.
C17_OneExecutionStoredPerExecutedAction ==
    /\ [](\A r \in DOMAIN task :
              (Stopped(r) /\ \A ae \in spawned : ae.run_id # r)
              => \A k \in 1..Len(task[r].outcomes) :
                    Cardinality({ae \in executions :
                                   ae.run_id = r /\ ae.action_id = task[r].acts[k].id}) = 1)
    /\ [][executions \subseteq executions']_vars

\* C16: two Runs of the same test case that interleave build their own
\* contexts: the context entry of an action in a Run is the response recorded
\* for that Run, the query of the second request is built from the Run's own
\* first response, the stored assertion results are the checks over the Run's
\* own context, and a Run whose replay task has stopped is Finished.
C16_InterleavedRunsAreIndependentAndFinish ==
    LET Own(r) == {ae \in spawned \cup executions : ae.run_id = r}
        Entry(ae) == Obj(T_output :> OptionOr(ae.response_body, Null)
                           @@ T_input :> OptionOr(ae.request_body, Null))
        ActionOf(r, ae) == CHOOSE a \in {task[r].acts[k] : k \in DOMAIN task[r].acts} :
                              a.id = ae.action_id
    IN \A r \in DOMAIN task :
         /\ \A ae \in Own(r) : task[r].context.v[ActionOf(r, ae).name] = Entry(ae)
         /\ \A first, second \in Own(r) :
               (ActionOf(r, first).order = 0 /\ ActionOf(r, second).order = 1)
               => second.query_params =
                    build_http_request(ActionOf(r, second),
                                       Obj(ActionOf(r, first).name :> Entry(first)),
                                       task[r].params).req.query
         /\ task[r].pc \in {"update", "done"}
               => task[r].results =
                    [j \in 1..Len(AssertionOperations_list(assertions)) |->
                        check_assertion(AssertionOperations_list(assertions)[j], task[r].context)]
         /\ runs[r].status = "Finished" => runs[r].assertion_results = Some(task[r].results)
         /\ Stopped(r) => runs[r].status = "Finished"

\* C21: for GreaterThan, GreaterThanOrEqualTo, LessThan and LessThanOrEqualTo,
\* when both sides are exactly one numeric element the assertion succeeds
\* exactly when (the numeric comparison) XOR negate; in every other shape of
\* the two sides the result is a failure with an incomparable message,
\* whatever negate is; a side that cannot be supplied gives a failure too.
C21_OrderingOnlyOnSingleNumbers ==
    \A r \in DOMAIN runs :
        runs[r].status = "Finished" =>
            \A a \in assertions :
                a.comparison_type \in {"GreaterThan", "GreaterThanOrEqualTo",
                                       "LessThan", "LessThanOrEqualTo"}
                => LET Numeric(x) == x.t \in {"num", "float"}
                       Holds(l, rr) ==
                           CASE a.comparison_type = "GreaterThan" -> l > rr
                             [] a.comparison_type = "GreaterThanOrEqualTo" -> l >= rr
                             [] a.comparison_type = "LessThan" -> l < rr
                             [] a.comparison_type = "LessThanOrEqualTo" -> l <= rr
                       Expected(left, right, res) ==
                           IF ~left.ok \/ ~right.ok THEN ~res.success
                           ELSE IF /\ Len(left.val) = 1 /\ Len(right.val) = 1
                                   /\ Numeric(left.val[1]) /\ Numeric(right.val[1])
                           THEN res.success = (Holds(left.val[1].v, right.val[1].v) # a.negate)
                           ELSE /\ ~res.success
                                /\ res.message \in {Some("cannot be compared as numbers"),
                                                    Some("Lists cannot be compared as numbers!")}
                   IN \A j \in 1..Len(runs[r].assertion_results.val) :
                         runs[r].assertion_results.val[j].assertion_id = a.id
                         => Expected(AssertionItem_supply(a.left, task[r].context),
                                     AssertionItem_supply(a.right, task[r].context),
                                     runs[r].assertion_results.val[j])

\* A finished run whose negated ordering assertion compared the text "r1"
\* of a response with the number 5 and failed as incomparable, while the
\* plain one failed the same way.
C21_Witness ==
    \E r \in DOMAIN runs :
        /\ runs[r].status = "Finished"
        /\ \E a \in assertions, b \in assertions :
             /\ a.comparison_type = "GreaterThan" /\ b.comparison_type = "GreaterThan"
             /\ ~a.negate /\ b.negate
             /\ a.left = b.left /\ a.right = b.right
             /\ AssertionItem_supply(b.left, task[r].context).ok
             /\ AssertionItem_supply(b.left, task[r].context).val = <<Str(<<"r", "1">>)>>
             /\ b.right = from_value(Num(5))
             /\ \E j, k \in 1..Len(runs[r].assertion_results.val) :
                  /\ runs[r].assertion_results.val[j]
                       = from_error(a.id, "cannot be compared as numbers")
                  /\ runs[r].assertion_results.val[k]
                       = from_error(b.id, "cannot be compared as numbers")

\* C22: check_assertion gives one AssertionResult for every listed assertion
\* in every context: when the assertions are listed the replay task goes on
\* with one result per assertion, in order; an item with neither a function
\* nor a value provider, and an expression that does not parse, give
\* success = false; and the message of a result is absent exactly when its
\* success is true.
C22_EveryAssertionGetsAResult ==
    /\ [](\A r \in DOMAIN task :
              task[r].pc \in {"update", "done"} =>
                LET Unprovided(item) == ~item.function.some /\ ~item.value_provider.some
                    Unparsed(item) ==
                        /\ ~item.function.some /\ item.value_provider.some
                        /\ ~item.value_provider.val.value.some
                        /\ item.value_provider.val.expression.some
                        /\ item.value_provider.val.expression.val[1] # "$"
                    Right(a, res) ==
                        /\ res.assertion_id = a.id
                        /\ res.success \in BOOLEAN
                        /\ res.message.some = ~res.success
                        /\ (\E item \in {a.left, a.right} : Unprovided(item) \/ Unparsed(item))
                              => ~res.success
                    Of(listed) ==
                        /\ Len(task[r].results) = Len(listed)
                        /\ \A j \in 1..Len(listed) : Right(listed[j], task[r].results[j])
                IN Of(AssertionOperations_list(assertions)))
    /\ [][\A r \in DOMAIN task :
             (task[r].pc = "assert" /\ task'[r].pc # "assert" /\ devs' = devs)
             => task'[r].pc = "update"]_vars

\* The replay task has checked an assertion whose right side has neither a
\* function nor a value provider, and one whose left side is an expression
\* without "$": both results are failures that carry a message.
C22_Witness ==
    \E r \in DOMAIN task :
        /\ task[r].pc \in {"update", "done"}
        /\ \E a \in assertions :
             /\ a.right = [function |-> None, value_provider |-> None]
             /\ a.left.value_provider.some
             /\ a.left.value_provider.val.expression.some
             /\ a.left.value_provider.val.expression.val[1] # "$"
             /\ \E j \in 1..Len(task[r].results) :
                  /\ task[r].results[j].assertion_id = a.id
                  /\ ~task[r].results[j].success
                  /\ task[r].results[j].message.some

\* C23: at the end of an inference run, for each base url of a processed
\* exchange: when a supplied provider has that base url, no provider is
\* created for it and the new test case is linked to the supplied one;
\* otherwise a provider linked to the new test case is created for it exactly
\* when an auth-shaped header or cookie was recorded on an exchange of that
\* base url, and never more than one.
C23_ProviderLinkedOrCreatedOnlyForAuth ==
    har.pc = "done" =>
        LET Created == {p \in providers : p.id > MaxProviders}
            Lowered(name) == [j \in 1..Len(name) |-> ToLowerChar(name[j])]
            AuthShaped(name) ==
                \E word \in {<<"a", "u", "t", "h", "o", "r", "i", "z", "a", "t", "i", "o", "n">>,
                             <<"t", "o", "k", "e", "n">>, <<"s", "e", "s", "s", "i", "o", "n">>,
                             <<"c", "s", "r", "f">>, <<"u", "s", "e", "r">>,
                             <<"o", "r", "i", "g", "i", "n">>, <<"c", "o", "o", "k", "i", "e">>,
                             <<"a", "u", "t", "h">>} : Contains(Lowered(name), word)
            Detected(b) ==
                \E j \in 1..Len(har.entries) :
                    /\ obtain_base_url(har.entries[j].url) = b
                    /\ \/ \E h \in 1..Len(har.entries[j].headers) :
                             AuthShaped(har.entries[j].headers[h].name)
                       \/ \E c \in 1..Len(har.entries[j].cookies) :
                             AuthShaped(har.entries[j].cookies[c].name)
            Supplied(b) == {p \in providers : p.id \in har.supplied /\ p.base_url = b}
            Of(b) ==
                IF Supplied(b) # {}
                THEN /\ \A q \in Created : q.base_url # b
                     /\ \A p \in Supplied(b) : TestCaseId \in p.linked
                ELSE /\ (\E q \in Created : q.base_url = b /\ q.linked = {TestCaseId})
                          <=> Detected(b)
                     /\ Cardinality({q \in Created : q.base_url = b}) <= 1
        IN \A j \in 1..Len(har.entries) : Of(obtain_base_url(har.entries[j].url))

\* C24: the request built for an action carries the enabled headers of
\* exactly the providers that are linked to the test case and whose base url
\* is the base url of the action's url: each of them is sent, and every
\* header sent is one of them or a Header parameter of the action.
C24_HeadersOfExactlyTheLinkedMatchingProviders ==
    \A r \in DOMAIN task :
        task[r].pc = "http" =>
            LET Base(url) ==
                    LET AfterScheme == FindSub(url, <<":", "/", "/">>) + 3
                        End == CHOOSE e \in AfterScheme..(Len(url) + 1) :
                                  /\ e = Len(url) + 1 \/ url[e] \in {"/", "?", "#"}
                                  /\ \A k \in AfterScheme..(e - 1) : url[k] \notin {"/", "?", "#"}
                    IN SubSeq(url, 1, End - 1)
                Owed(action) ==
                    {[key |-> p.headers[h].name, value |-> p.headers[h].value] :
                        <<p, h>> \in {ph \in providers \X (1..3) :
                                        /\ ph[2] <= Len(ph[1].headers)
                                        /\ ~ph[1].headers[ph[2]].disabled
                                        /\ TestCaseId \in ph[1].linked
                                        /\ ph[1].base_url = Base(action.url)}}
                Sent == {task[r].req.headers[j] : j \in 1..Len(task[r].req.headers)}
                Of(action) ==
                    /\ Owed(action) \subseteq Sent
                    /\ \A sent \in Sent :
                          \/ sent \in Owed(action)
                          \/ \E q \in parameters :
                                /\ q.action_id = action.id /\ q.ptype = "Input"
                                /\ q.loc = "Header" /\ q.path = sent.key
            IN Of(task[r].acts[task[r].i])

\* C25: at the end of an inference run, no request header whose name
\* contains, whatever its case, one of authorization, token, session, csrf,
\* user, origin, cookie, auth, and no content-length header, is an Input
\* Header parameter of its action; and every such auth-shaped header of an
\* exchange whose base url no supplied provider has is a header of the
\* provider created for that base url.
C25_AuthHeadersNeverBecomeParameters ==
    har.pc = "done" =>
        LET Lowered(name) == [j \in 1..Len(name) |-> ToLowerChar(name[j])]
            AuthShaped(name) ==
                \E word \in {<<"a", "u", "t", "h", "o", "r", "i", "z", "a", "t", "i", "o", "n">>,
                             <<"t", "o", "k", "e", "n">>, <<"s", "e", "s", "s", "i", "o", "n">>,
                             <<"c", "s", "r", "f">>, <<"u", "s", "e", "r">>,
                             <<"o", "r", "i", "g", "i", "n">>, <<"c", "o", "o", "k", "i", "e">>,
                             <<"a", "u", "t", "h">>} : Contains(Lowered(name), word)
            ContentLength(name) ==
                Contains(Lowered(name),
                         <<"c", "o", "n", "t", "e", "n", "t", "-", "l", "e", "n", "g", "t", "h">>)
            Named(name) == SelectSeq2(name, [j \in 1..Len(name) |-> name[j] # ":"])
            Matched(b) == \E p \in providers : p.id \in har.supplied /\ p.base_url = b
            Of(action, entry, header) ==
                /\ (AuthShaped(header.name) \/ ContentLength(header.name))
                      => ~\E q \in parameters :
                             /\ q.action_id = action.id /\ q.ptype = "Input"
                             /\ q.loc = "Header" /\ q.path = Named(header.name)
                /\ (AuthShaped(header.name) /\ ~Matched(obtain_base_url(entry.url)))
                      => \E p \in providers :
                            /\ p.id > MaxProviders
                            /\ p.base_url = obtain_base_url(entry.url)
                            /\ \E k \in 1..Len(p.headers) : p.headers[k].name = Named(header.name)
        IN \A j \in 1..Len(har.entries) : \A h \in 1..Len(har.entries[j].headers) :
              Of(har.actions[j], har.entries[j], har.entries[j].headers[h])

\* C26: when the request indexes of two or more exchanges before position i
\* store a value equal to an assertable leaf of the response of i, the left
\* expression of the assertion stored for that leaf is a path of the latest
\* of those request indexes.
C26_AssertionTakesTheLatestPriorRequest ==
    \A n \in 1..Len(har.actions) :
        LET Stores(j, value) == \E k \in 1..Len(har.request_indexes[j]) :
                                   har.request_indexes[j][k].value = value
            Latest(value) == CHOOSE j \in 1..(n - 1) :
                                /\ Stores(j, value)
                                /\ \A later \in (j + 1)..(n - 1) : ~Stores(later, value)
            Leaf(leaf) ==
                (\E j1, j2 \in 1..(n - 1) :
                    j1 < j2 /\ Stores(j1, leaf.value) /\ Stores(j2, leaf.value))
                => \A a \in assertions :
                      a.right = from_expression(leaf.path)
                      => \E k \in 1..Len(har.request_indexes[Latest(leaf.value)]) :
                            /\ har.request_indexes[Latest(leaf.value)][k].value = leaf.value
                            /\ a.left = from_expression(
                                            har.request_indexes[Latest(leaf.value)][k].path)
        IN \A k \in 1..Len(har.response_indexes[n]) : Leaf(har.response_indexes[n][k])

\* C27: whenever a Run is stored as Finished, an ActionExecution record is
\* stored for every action that was executed in that Run.
C27_FinishedRunHasItsExecutions ==
    \A r \in DOMAIN runs :
        runs[r].status = "Finished" =>
            \A k \in 1..Len(task[r].outcomes) :
                \E ae \in executions : ae.run_id = r /\ ae.action_id = task[r].acts[k].id

\* C28: when a test case is deleted while run_test is starting or while its
\* Run is in progress, then once the delete call has returned and the
\* cascade, the replay task and the writes it spawned have all stopped, no
\* run and no action execution of the test case is stored.
C28_DeleteDuringRunLeavesNothing ==
    (/\ ~caseStored
     /\ rt.pc = "idle" /\ rt.callsLeft = 0
     /\ \A r \in DOMAIN task : Stopped(r)
     /\ spawned = {}
     /\ del.callsLeft = 0 /\ del.pc = "recv"
     /\ chan = <<>> /\ sweeps = {} /\ senders = {} /\ batches = {})
    => DOMAIN runs = {} /\ executions = {}

\* C29: once the delete call has returned and no delete event remains to
\* be processed (the channel is empty and no task is left that could send
\* an event), the consumer task is no longer waiting in rx.recv(); this
\* includes the call on a test case that did not exist.
C29_ConsumerEndsWhenNothingRemains ==
    (/\ del.callsLeft = 0
     /\ chan = <<>> /\ sweeps = {} /\ senders = {} /\ batches = {}
     /\ del.queue = <<>>)
    => del.pc # "recv"

\* C30: a turn of the loop of delete_all_items that handles a page with no
\* next_page_key ends the sweep, a turn that handles a page with one goes
\* on from that key, and a turn whose list_items call fails (the one step
\* that spends a storage failure and changes nothing but the sweeps) ends
\* the sweep as well.
C30_SweepStopsOnLastPageAndOnError ==
    /\ [][\A s \in sweeps \ sweeps' :
             LET Next_key(result) ==
                     IF result.next_page_key.some
                     THEN sweeps' \ sweeps = {[s EXCEPT !.key = result.next_page_key]}
                     ELSE sweeps' \ sweeps = {}
             IN Next_key(list_items(PartitionItems(s.table, s.part), ListLimit,
                                    OptionOr(s.key, 0)))]_vars
    /\ [][(/\ devs' < devs
           /\ UNCHANGED <<del, chan, senders, batches, providers, rt, task, spawned, runs>>)
          => sweeps' # sweeps]_vars

====
